---------------------------- MODULE Spec2Model ----------------------------
(***************************************************************************)
(* WinBets enrichment scripts.                                             *)
(*                                                                         *)
(*   get_odds.py / get_odds_v2.py   safe_get, get_snapshot_ts,             *)
(*                                  fetch_historical_totals, main          *)
(*   stats_grab.py                  fetch_odds_for_games,                  *)
(*                                  get_2hr_weather_avg, main              *)
(*   get_weather.py                 get_3hr_weather_avg, the batch         *)
(*   eventids.py                    normalize, main (the merge)            *)
(*   check.py                       find_duplicates_loops                  *)
(*   fetch_historical_odds.py       american_to_decimal, fetch_event_id,   *)
(*                                  fetch_totals_for_event, main           *)
(*   machine_learning.py            load_and_preprocess (rel_deg)          *)
(*                                                                         *)
(* Representation.  A Python value that may be None is <<>> (None) or      *)
(* <<v>> (Some(v)).  Lines and run totals are integers counted in half     *)
(* runs (17 is 8.5, 18 is 9.0); prices and payouts are integers counted in *)
(* hundredths (191 is 1.91, 10000 is 100.00).  A missing cell read by      *)
(* pandas is NaN, for which every comparison is false.                     *)
(***************************************************************************)
EXTENDS Integers, Sequences, FiniteSets, TLC

VARIABLES
    script,      \* which program runs: "get_odds", "get_odds_v2", "stats_grab", "extract",
                 \* "weather", "get_weather", "eventids", "check", "fetch_historical_odds",
                 \* "wind", "pair", "clock"
    rows,        \* the working table (df_new / df / games), a sequence of records
    idx,         \* position of the event loop in rows (1-based; Len(rows)+1 past the end)
    processed,   \* get_odds.main: the `processed` counter
    pc,          \* control point of the running program
    attempt,     \* requests issued so far by the running safe_get / per-game fetch
    lastStatus,  \* outcome of the latest request of the running call
    lastRet,     \* what the latest request made the fetcher do: "retry", "none", "resp", "raise"
    lastCall,    \* the call the latest request belonged to: "snap", "odds", "grab"
    lastLog,     \* the lines printed by the latest step
    cur,         \* the row of the event taken last by the loop (0 before the first)
    sent,        \* requests issued for the current event: [endpoint, date]
    ts,          \* the snapshot token obtained for the current event, or None
    noSnap,      \* history: rows whose snapshot lookup returned no token
    oddsAsked,   \* history: rows for which an odds request was issued
    out,         \* stats_grab.fetch_odds_for_games: the list `out`
    skipped,     \* stats_grab.fetch_odds_for_games: the counter `skipped`
    doc,         \* the odds document decoded last (extractor harness, fetch_historical_odds)
    quote,       \* extractor harness: the extracted record
    applied,     \* extractor harness: which extractor produced quote
    hourly,      \* weather: per row, the hourly payload its weather request delivered
    wx,          \* weather: per row, what its aggregator call did (summary or exception)
    wxOf,        \* weather batches: per row, the weather fields set on it (None: not set)
    enriched,    \* weather batches: the rows collected for the output, in order
    written,     \* weather batches: the rows of the written sheet, or None before the write
    table,       \* eventids: the rows of input.xlsx
    all_events,  \* eventids.main: the list `all_events`
    day,         \* eventids.main: the day cursor (1-based; past MaxDays when the loop is over)
    prevTable,   \* eventids history: the table the latest merge started from
    batch,       \* eventids history: the fetched rows of the latest merge
    records,     \* check.find_duplicates_loops: the list `records`
    duplicates,  \* check.find_duplicates_loops: the list `duplicates`
    pair         \* check.find_duplicates_loops: the pair <<i, j>> compared next

vars == <<script, rows, idx, processed, pc, attempt, lastStatus, lastRet, lastCall,
          lastLog, cur, sent, ts, noSnap, oddsAsked, out, skipped, doc, quote, applied,
          hourly, wx, wxOf, enriched, written,
          table, all_events, day, prevTable, batch,
          records, duplicates, pair>>

\* the variables of the weather scripts, of eventids and of check
wxVars == <<hourly, wx, wxOf, enriched, written>>
mergeVars == <<table, all_events, day, prevTable, batch>>
dupVars == <<records, duplicates, pair>>

-----------------------------------------------------------------------------
(* Optional values *)

None == <<>>
Some(v) == <<v>>
Val(o) == o[1]
NaN == None

\* hundredths of a unit
Hundredths(x) == 100 * x

\* the elements of a list
Range(s) == {s[k] : k \in DOMAIN s}

-----------------------------------------------------------------------------
(* Bounds of the model *)

MaxBooks == 2        \* bookmakers in an odds document
MaxRows == 2         \* rows of the working table

-----------------------------------------------------------------------------
(* Program constants *)

MARKETS == "totals"
Retries == 3                 \* safe_get(url, params, retries=3, backoff=60)
MAX_LINES == 10000
Stake == 100                 \* the 100-unit bet of the payout lines
HISTORICAL_CUTOFF == 10      \* 2023-05-03T05:30:00 on the model's clock

-----------------------------------------------------------------------------
(* Odds documents: data.bookmakers[].markets[].outcomes[]                  *)

\* The k-th bookmaker of a document quotes the line LineAt(k) where it gives a
\* point at all, so that two bookmakers never agree on the line.
LineAt(k) == 16 + k

PriceOf(name) == IF name = "Over" THEN 191 ELSE 195

\* An outcome is described by its name and by which of point and price it has.
OutcomeSpecs(name) ==
    {[name |-> name, hasPoint |-> p, hasPrice |-> q] : p \in BOOLEAN, q \in BOOLEAN}

\* Over before Under with every combination of missing fields; Under before
\* Over with the prices present
OutcomeSpecLists ==
    {<<>>}
    \cup {<<o>> : o \in OutcomeSpecs("Over") \cup OutcomeSpecs("Under")}
    \cup {<<o, u>> : o \in OutcomeSpecs("Over"), u \in OutcomeSpecs("Under")}
    \cup {<<u, o>> : u \in {x \in OutcomeSpecs("Under") : x.hasPrice},
                     o \in {x \in OutcomeSpecs("Over") : x.hasPrice}}

FullSpecList ==
    <<[name |-> "Over", hasPoint |-> TRUE, hasPrice |-> TRUE],
      [name |-> "Under", hasPoint |-> TRUE, hasPrice |-> TRUE]>>

\* the markets of one bookmaker: none, head-to-head only, a totals market, or
\* a head-to-head market before a full totals market
BookShapes ==
    {<<>>,
     <<[key |-> "h2h", outcomes |-> <<>>]>>,
     <<[key |-> "h2h", outcomes |-> <<>>], [key |-> "totals", outcomes |-> FullSpecList]>>}
    \cup {<<[key |-> "totals", outcomes |-> ol]>> : ol \in OutcomeSpecLists}

Outcome(spec, k) ==
    [name |-> spec.name,
     point |-> IF spec.hasPoint THEN Some(LineAt(k)) ELSE None,
     price |-> IF spec.hasPrice THEN Some(PriceOf(spec.name)) ELSE None]

Bookmaker(k, shape) ==
    [key |-> Some(k),
     markets |-> [m \in DOMAIN shape |->
                    [key |-> shape[m].key,
                     outcomes |-> [i \in DOMAIN shape[m].outcomes |->
                                     Outcome(shape[m].outcomes[i], k)]]]]

\* the document whose k-th bookmaker has the shape f[k]
Document(f) == [k \in DOMAIN f |-> Bookmaker(k, f[k])]

\* the documents with at most one bookmaker
SingleBookDocs == {Document(f) : f \in [1..0 -> BookShapes] \cup [1..1 -> BookShapes]}

-----------------------------------------------------------------------------
(* The extractors *)

NoQuote ==
    [TotalRunsLine |-> None, TotalOverOdds |-> None,
     TotalUnderOdds |-> None, Sportbook |-> None]

\* faulty variant: the last match instead of the first
LastIndex(S) == CHOOSE i \in S : \A j \in S : i >= j

\* iteration order of a Python for loop / next(): the lowest index first
FirstIndex(S) == CHOOSE i \in S : \A j \in S : i <= j

NamedIdx(outcomes, nm) == {i \in DOMAIN outcomes : outcomes[i].name = nm}

MarketIdx(d) == UNION {DOMAIN d[b].markets : b \in DOMAIN d}

\* get_odds.fetch_historical_totals after its safe_get: resp is None or
\* Some(document), the document being data.bookmakers

TotalsHits(d) ==
    {bm \in (DOMAIN d) \X MarketIdx(d) :
        /\ bm[2] \in DOMAIN d[bm[1]].markets
        /\ d[bm[1]].markets[bm[2]].key = MARKETS
        /\ NamedIdx(d[bm[1]].markets[bm[2]].outcomes, "Over") # {}
        /\ NamedIdx(d[bm[1]].markets[bm[2]].outcomes, "Under") # {}}

fetch_historical_totals(resp) ==
    IF resp = None THEN NoQuote
    ELSE LET d == Val(resp)
             hits == TotalsHits(d)
         IN  IF hits = {} THEN NoQuote
             ELSE LET b == FirstIndex({h[1] : h \in hits})
                      m == FirstIndex({h[2] : h \in {x \in hits : x[1] = b}})
                      outcomes == d[b].markets[m].outcomes
                      over == outcomes[FirstIndex(NamedIdx(outcomes, "Over"))]
                      under == outcomes[FirstIndex(NamedIdx(outcomes, "Under"))]
                  IN  [TotalRunsLine |-> over.point,
                       TotalOverOdds |-> over.price,
                       TotalUnderOdds |-> under.price,
                       Sportbook |-> d[b].key]

\* stats_grab.fetch_odds_for_games: the totals market it locates
TotalsMarkets(d) ==
    {bm \in (DOMAIN d) \X MarketIdx(d) :
        /\ bm[2] \in DOMAIN d[bm[1]].markets
        /\ d[bm[1]].markets[bm[2]].key = "totals"}

\* the loop over totals.outcomes: acc is <<line, over_odds, under_odds>>
RECURSIVE ScanOutcomes(_, _, _)
ScanOutcomes(outcomes, i, acc) ==
    IF i > Len(outcomes) THEN acc
    ELSE LET oc == outcomes[i]
         IN  IF oc.name = "Over"
             THEN ScanOutcomes(outcomes, i + 1, <<oc.point, oc.price, acc[3]>>)
             ELSE IF oc.name = "Under"
             THEN ScanOutcomes(outcomes, i + 1, <<oc.point, acc[2], oc.price>>)
             ELSE ScanOutcomes(outcomes, i + 1, acc)

\* stats_grab.fetch_odds_for_games, from `event = body.get("data")` on: the fields
\* set on the game, or NoQuote when the game is skipped
GrabTotals(d) ==
    LET tms == TotalsMarkets(d)
    IN  IF tms = {} THEN NoQuote
        ELSE LET b == FirstIndex({h[1] : h \in tms})
                 m == FirstIndex({h[2] : h \in {x \in tms : x[1] = b}})
                 acc == ScanOutcomes(d[b].markets[m].outcomes, 1, <<None, None, None>>)
             IN  IF acc[1] = None \/ acc[2] = None \/ acc[3] = None
                 THEN NoQuote
                 ELSE [TotalRunsLine |-> acc[1], TotalOverOdds |-> acc[2],
                       TotalUnderOdds |-> acc[3], Sportbook |-> None]

-----------------------------------------------------------------------------
(* The fetcher: get_odds.safe_get, one iteration of its loop                *)

ConnError == [kind |-> "conn"]
Http(code) == [kind |-> "http", status |-> code]
NoResponse == [kind |-> "none"]

StatusCodes == {200, 404, 422, 429, 500}

\* faulty variant: only the 5xx statuses raise
RaisesForServerError(code) == code >= 500 /\ code < 600

\* requests.Response.raise_for_status raises for 4xx and 5xx
RaisesForStatus(code) == code >= 400 /\ code < 600

\* faulty variant: server errors are retried as well
IsRetriedOrServerError(code) == code = 429 \/ code >= 500

\* `if resp.status_code == 429: ... continue`
IsRetried(code) == code = 429

\* `if resp.status_code == 404: return None`, before raise_for_status
IsSilentNone(code) == code = 404

\* range(1, retries+1): n is the number of the attempt just made
IsLastAttempt(n) == n >= Retries

\* what attempt n does with response r: ret is "retry" (next iteration),
\* "none" (return None) or "resp" (return resp); log is what it prints
safe_get(r, n) ==
    IF r.kind = "conn"
    THEN [ret |-> "none", log |-> {"request_error"}]
    ELSE IF IsRetried(r.status)
    THEN IF IsLastAttempt(n)
         THEN [ret |-> "none", log |-> {"rate_limit", "failed_after_retries"}]
         ELSE [ret |-> "retry", log |-> {"rate_limit"}]
    ELSE IF IsSilentNone(r.status)
    THEN [ret |-> "none", log |-> {}]
    ELSE IF RaisesForStatus(r.status)
    THEN [ret |-> "none", log |-> {"http_error"}]
    ELSE [ret |-> "resp", log |-> {}]

\* the warning and error lines safe_get itself prints
FetcherLines == {"request_error", "rate_limit", "http_error", "failed_after_retries"}

-----------------------------------------------------------------------------
(* Outcome and payouts: get_odds.main lines 145-161, get_odds_v2.main 146-164 *)

\* `x or 0`
OrZero(x) == IF x = None \/ x = Some(0) THEN 0 ELSE Val(x)

\* actual == line and actual > line; both are false for NaN
NumEq(actual, line) == actual # NaN /\ Val(actual) = Val(line)
NumGt(actual, line) == actual # NaN /\ Val(actual) > Val(line)

\* faulty variant: a total equal to the line counts as Over
ClassifyNoPush(actual, line) ==
    IF NumEq(actual, line) \/ NumGt(actual, line) THEN "Over" ELSE "Under"

Classify(actual, line) ==
    IF NumEq(actual, line) THEN "Push"
    ELSE IF NumGt(actual, line) THEN "Over"
    ELSE "Under"

\* faulty variant: both sides are paid at their price whatever the outcome
PayoutsBothSides(outcome, over_o, under_o) ==
    IF outcome = "Push" THEN <<Some(Hundredths(Stake)), Some(Hundredths(Stake))>>
    ELSE <<Some(Stake * over_o), Some(Stake * under_o)>>

\* <<OverPayout, UnderPayout>> of a labelled event
Payouts(outcome, over_o, under_o) ==
    IF outcome = "Over" THEN <<Some(Stake * over_o), Some(0)>>
    ELSE IF outcome = "Under" THEN <<Some(0), Some(Stake * under_o)>>
    ELSE <<Some(Hundredths(Stake)), Some(Hundredths(Stake))>>

\* get_odds.main lines 139-161: the row after the odds were fetched
EnrichV1(row, odds) ==
    LET line == odds.TotalRunsLine
        over_o == OrZero(odds.TotalOverOdds)
        under_o == OrZero(odds.TotalUnderOdds)
        actual == row.TotalRuns
        outcome == IF line = None THEN None ELSE Some(Classify(actual, line))
        pay == IF outcome = None THEN <<None, None>>
               ELSE Payouts(Val(outcome), over_o, under_o)
    IN  [row EXCEPT !.TotalRunsLine = odds.TotalRunsLine,
                    !.TotalOverOdds = odds.TotalOverOdds,
                    !.TotalUnderOdds = odds.TotalUnderOdds,
                    !.Sportbook = odds.Sportbook,
                    !.Outcome = outcome,
                    !.OverPayout = pay[1],
                    !.UnderPayout = pay[2]]

\* get_odds_v2.main lines 140-164
EnrichV2(row, odds) ==
    LET withOdds == [row EXCEPT !.TotalRunsLine = odds.TotalRunsLine,
                                !.TotalOverOdds = odds.TotalOverOdds,
                                !.TotalUnderOdds = odds.TotalUnderOdds,
                                !.Sportbook = odds.Sportbook]
        line == odds.TotalRunsLine
    IN  IF line = None THEN withOdds
        ELSE LET actual == row.TotalRuns
                 over_o == OrZero(odds.TotalOverOdds)
                 under_o == OrZero(odds.TotalUnderOdds)
                 outcome == Classify(actual, line)
                 pay == Payouts(outcome, over_o, under_o)
             IN  [withOdds EXCEPT !.Outcome = Some(outcome),
                                  !.OverPayout = pay[1],
                                  !.UnderPayout = pay[2]]

-----------------------------------------------------------------------------
(* The working table of get_odds.main and get_odds_v2.main                  *)

OddsCols ==
    {"TotalRunsLine", "TotalOverOdds", "TotalUnderOdds",
     "Sportbook", "Outcome", "OverPayout", "UnderPayout"}

\* realized totals on the sheet: 8 runs, 9 runs, or an empty cell
RunTotals == {Some(16), Some(18), NaN}

\* a row after `df[c] = None` for the seven columns
BlankRow(i, t, runs) ==
    [id |-> i, commence_time |-> t, TotalRuns |-> runs,
     TotalRunsLine |-> None, TotalOverOdds |-> None, TotalUnderOdds |-> None,
     Sportbook |-> None, Outcome |-> None, OverPayout |-> None, UnderPayout |-> None]

\* a row that an earlier run already enriched
EnrichedRow(i, t) ==
    [id |-> i, commence_time |-> t, TotalRuns |-> Some(18),
     TotalRunsLine |-> Some(17), TotalOverOdds |-> Some(191), TotalUnderOdds |-> Some(195),
     Sportbook |-> Some(1), Outcome |-> Some("Over"),
     OverPayout |-> Some(Stake * 191), UnderPayout |-> Some(0)]

\* a row that an earlier run of get_odds_v2 left after a quote without a line
\* (the book and the prices are written, `continue` skips the label)
PartialRow(i, t) ==
    [id |-> i, commence_time |-> t, TotalRuns |-> Some(18),
     TotalRunsLine |-> None, TotalOverOdds |-> Some(191), TotalUnderOdds |-> Some(195),
     Sportbook |-> Some(1), Outcome |-> None, OverPayout |-> None, UnderPayout |-> None]

\* faulty variant: only the line column is looked at
IsBlankLine(row) == row.TotalRunsLine = None

\* missing = df[odds_cols].isna().all(axis=1)
IsBlank(row) == \A c \in OddsCols : row[c] = None

\* realized totals on the rows of the event loop's tables
LoopTotals == {Some(18), NaN}

\* get_odds: rows of sheet position i, before the cutoff (they go to df_old) or after
RowsV1(i) ==
    {BlankRow(i, HISTORICAL_CUTOFF - 1, Some(18))}
    \cup {BlankRow(i, HISTORICAL_CUTOFF + i, r) : r \in LoopTotals}

\* get_odds_v2: rows of sheet position i, enriched already or not
RowsV2(i) ==
    {EnrichedRow(i, HISTORICAL_CUTOFF + i), PartialRow(i, HISTORICAL_CUTOFF + i)}
    \cup {BlankRow(i, HISTORICAL_CUTOFF + i, r) : r \in LoopTotals}

RECURSIVE TablesOfLen(_, _)
TablesOfLen(v, n) ==
    IF n = 0 THEN {<<>>}
    ELSE {Append(t, r) : t \in TablesOfLen(v, n - 1),
                         r \in IF v = "get_odds" THEN RowsV1(n) ELSE RowsV2(n)}

Tables(v) == UNION {TablesOfLen(v, n) : n \in 0..MaxRows}

\* the rows the event loop visits: df_new in get_odds, df[missing] in get_odds_v2
Eligible(v, row) ==
    IF v = "get_odds" THEN row.commence_time >= HISTORICAL_CUTOFF
    ELSE IsBlank(row)

NextEligible(v, rws, from) ==
    LET S == {j \in from..Len(rws) : Eligible(v, rws[j])}
    IN  IF S = {} THEN Len(rws) + 1 ELSE FirstIndex(S)

\* limit = min(total, MAX_LINES), total = len(df_new)
Limit(rws) ==
    LET total == Cardinality({j \in DOMAIN rws : Eligible("get_odds", rws[j])})
    IN  IF total < MAX_LINES THEN total ELSE MAX_LINES

-----------------------------------------------------------------------------
(* Response bodies *)

NotJson == [kind |-> "notjson"]
JsonNull == [kind |-> "null"]

\* the snapshot lookup answers {"timestamp": t} with t the snapshot at or just
\* before the date asked for, or a document without a timestamp
SnapBodies(row) ==
    {NotJson, JsonNull}
    \cup {[kind |-> "json", timestamp |-> t] :
            t \in {None, Some(row.commence_time), Some(row.commence_time - 1)}}

OddsBodies ==
    {NotJson, JsonNull} \cup {[kind |-> "json", data |-> d] : d \in SingleBookDocs}

Responses == {ConnError} \cup {Http(c) : c \in StatusCodes}

\* faulty variant: a lookup without a token is not noticed
NeverFailed(t) == FALSE

\* `if not ts:` in main
LookupFailed(t) == t = None

\* get_snapshot_ts after its safe_get: resp is None or Some(body)
get_snapshot_ts(v, resp) ==
    IF resp = None THEN [raised |-> FALSE, ts |-> None]
    ELSE IF Val(resp).kind = "notjson" THEN [raised |-> TRUE, ts |-> None]
    ELSE IF Val(resp).kind = "null"
    THEN [raised |-> (v = "get_odds"), ts |-> None]
    ELSE [raised |-> FALSE, ts |-> Val(resp).timestamp]

\* fetch_historical_totals with the decoding of the body
FetchTotals(v, resp) ==
    IF resp = None THEN [raised |-> FALSE, odds |-> NoQuote, log |-> {}]
    ELSE IF Val(resp).kind = "notjson"
    THEN [raised |-> TRUE, odds |-> NoQuote, log |-> {}]
    ELSE IF Val(resp).kind = "null"
    THEN [raised |-> (v = "get_odds"), odds |-> NoQuote, log |-> {}]
    ELSE LET d == Val(resp).data
         IN  [raised |-> FALSE,
              odds |-> fetch_historical_totals(Some(d)),
              log |-> IF v = "get_odds" /\ TotalsHits(d) = {}
                      THEN {"totals_missing"} ELSE {}]

-----------------------------------------------------------------------------
(* get_odds.main and get_odds_v2.main: the event loop                       *)

OddsScripts == {"get_odds", "get_odds_v2"}

HarnessIdle == doc = <<>> /\ quote = NoQuote /\ applied = "none"

WxIdle ==
    /\ hourly = <<>> /\ wx = <<>> /\ wxOf = <<>>
    /\ enriched = <<>> /\ written = None
MergeIdle ==
    /\ table = <<>> /\ all_events = <<>> /\ day = 0 /\ prevTable = <<>> /\ batch = <<>>
DupIdle == records = <<>> /\ duplicates = <<>> /\ pair = <<0, 0>>
GrabIdle == out = <<>> /\ skipped = 0

InitOdds ==
    /\ script \in OddsScripts
    /\ rows \in Tables(script)
    /\ idx = NextEligible(script, rows, 1)
    /\ cur = 0
    /\ processed = 0
    /\ pc = "loop"
    /\ attempt = 0
    /\ lastStatus = NoResponse
    /\ lastRet = "-"
    /\ lastCall = "-"
    /\ lastLog = {}
    /\ sent = {}
    /\ ts = None
    /\ noSnap = {}
    /\ oddsAsked = {}
    /\ GrabIdle
    /\ HarnessIdle
    /\ WxIdle
    /\ MergeIdle
    /\ DupIdle

\* `for idx, row in df_new.iterrows()` takes the next row and calls get_snapshot_ts
StartEvent ==
    /\ script \in OddsScripts
    /\ pc = "loop"
    /\ idx <= Len(rows)
    /\ script = "get_odds" => processed < Limit(rows)
    /\ cur' = idx
    /\ pc' = "snap"
    /\ attempt' = 0
    /\ lastStatus' = NoResponse
    /\ lastRet' = "-"
    /\ lastCall' = "snap"
    /\ lastLog' = {}
    /\ sent' = {}
    /\ ts' = None
    /\ UNCHANGED <<script, rows, idx, processed, noSnap, oddsAsked, out, skipped,
                   doc, quote, applied>>
    /\ UNCHANGED <<wxVars, mergeVars, dupVars>>

\* the loop is exhausted (or `processed >= limit`): the sheets are written
Finish ==
    /\ script \in OddsScripts
    /\ pc = "loop"
    /\ idx > Len(rows) \/ (script = "get_odds" /\ processed >= Limit(rows))
    /\ pc' = "done"
    /\ UNCHANGED <<script, rows, idx, cur, processed, attempt, lastStatus, lastRet,
                   lastCall, lastLog, sent, ts, noSnap, oddsAsked, out, skipped,
                   doc, quote, applied>>
    /\ UNCHANGED <<wxVars, mergeVars, dupVars>>

\* one request of the safe_get inside get_snapshot_ts, and what main does when
\* the lookup returns (lines 135-137 and 165; get_odds_v2 lines 134-137)
SnapshotRequest ==
    /\ script \in OddsScripts
    /\ pc = "snap"
    /\ \E r \in Responses, body \in SnapBodies(rows[cur]) :
         LET n == attempt + 1
             sg == safe_get(r, n)
             resp == IF sg.ret = "resp" THEN Some(body) ELSE None
             snap == get_snapshot_ts(script, resp)
         IN  /\ sg.ret # "resp" => body = NotJson
             /\ attempt' = n
             /\ lastStatus' = r
             /\ lastCall' = "snap"
             /\ sent' = sent \cup {[endpoint |-> "snap", date |-> rows[cur].commence_time]}
             /\ IF sg.ret = "retry"
                THEN /\ lastRet' = "retry"
                     /\ lastLog' = sg.log
                     /\ UNCHANGED <<pc, idx, processed, ts, noSnap>>
                ELSE IF snap.raised
                THEN /\ lastRet' = "raise"
                     /\ lastLog' = sg.log
                     /\ pc' = "crashed"
                     /\ UNCHANGED <<idx, processed, ts, noSnap>>
                ELSE /\ lastRet' = sg.ret
                     /\ ts' = snap.ts
                     /\ noSnap' = IF snap.ts = None THEN noSnap \cup {cur} ELSE noSnap
                     /\ IF LookupFailed(snap.ts)
                        THEN /\ lastLog' = sg.log \cup {"no_snapshot"}
                             /\ processed' = processed + 1
                             /\ idx' = NextEligible(script, rows, cur + 1)
                             /\ pc' = "loop"
                        ELSE /\ lastLog' = sg.log
                             /\ pc' = "odds"
                             /\ UNCHANGED <<idx, processed>>
    /\ UNCHANGED <<script, rows, cur, oddsAsked, out, skipped, doc, quote, applied>>
    /\ UNCHANGED <<wxVars, mergeVars, dupVars>>

\* one request of the safe_get inside fetch_historical_totals, and what main
\* does with the odds (lines 139-165; get_odds_v2 lines 140-169)
OddsRequest ==
    /\ script \in OddsScripts
    /\ pc = "odds"
    /\ \E r \in Responses, body \in OddsBodies :
         LET first == lastCall = "snap"
             n == IF first THEN 1 ELSE attempt + 1
             sg == safe_get(r, n)
             resp == IF sg.ret = "resp" THEN Some(body) ELSE None
             ft == FetchTotals(script, resp)
             row == IF script = "get_odds" THEN EnrichV1(rows[cur], ft.odds)
                    ELSE EnrichV2(rows[cur], ft.odds)
         IN  /\ sg.ret # "resp" => body = NotJson
             /\ attempt' = n
             /\ lastStatus' = r
             /\ lastCall' = "odds"
             /\ sent' = sent \cup {[endpoint |-> "odds", date |-> Val(ts)]}
             /\ oddsAsked' = oddsAsked \cup {cur}
             /\ IF sg.ret = "retry"
                THEN /\ lastRet' = "retry"
                     /\ lastLog' = sg.log
                     /\ UNCHANGED <<pc, idx, processed, rows>>
                ELSE IF ft.raised
                THEN /\ lastRet' = "raise"
                     /\ lastLog' = sg.log
                     /\ pc' = "crashed"
                     /\ UNCHANGED <<idx, processed, rows>>
                ELSE /\ lastRet' = sg.ret
                     /\ lastLog' = sg.log \cup ft.log
                                   \cup IF script = "get_odds_v2" /\ ft.odds.TotalRunsLine = None
                                        THEN {"no_totals_line"} ELSE {}
                     /\ rows' = [rows EXCEPT ![cur] = row]
                     /\ processed' = processed + 1
                     /\ idx' = NextEligible(script, rows, cur + 1)
                     /\ pc' = "loop"
    /\ UNCHANGED <<script, cur, ts, noSnap, out, skipped, doc, quote, applied>>
    /\ UNCHANGED <<wxVars, mergeVars, dupVars>>

NextOdds == StartEvent \/ SnapshotRequest \/ OddsRequest \/ Finish

SpecOdds == InitOdds /\ [][NextOdds]_vars

-----------------------------------------------------------------------------
(* The extractors and the row computation applied to one document           *)

LoopIdle ==
    /\ idx = 1 /\ cur = 0 /\ processed = 0 /\ attempt = 0
    /\ lastStatus = NoResponse /\ lastRet = "-" /\ lastCall = "-" /\ lastLog = {}
    /\ sent = {} /\ ts = None /\ noSnap = {} /\ oddsAsked = {}

InitExtract ==
    /\ script = "extract"
    /\ pc = "input"
    /\ \E n \in 0..MaxBooks : \E f \in [1..n -> BookShapes] : doc = Document(f)
    /\ \E runs \in RunTotals : rows = <<BlankRow(1, HISTORICAL_CUTOFF + 1, runs)>>
    /\ quote = NoQuote
    /\ applied = "none"
    /\ LoopIdle
    /\ GrabIdle
    /\ WxIdle
    /\ MergeIdle
    /\ DupIdle

\* fetch_historical_totals on a decoded response, then the row computation of
\* get_odds.main or get_odds_v2.main
ApplyFetchTotals ==
    /\ script = "extract"
    /\ pc = "input"
    /\ \E v \in OddsScripts :
         LET odds == fetch_historical_totals(Some(doc))
         IN  /\ quote' = odds
             /\ applied' = v
             /\ rows' = <<IF v = "get_odds" THEN EnrichV1(rows[1], odds)
                                             ELSE EnrichV2(rows[1], odds)>>
    /\ pc' = "output"
    /\ UNCHANGED <<script, idx, processed, attempt, lastStatus, lastRet, lastCall,
                   lastLog, cur, sent, ts, noSnap, oddsAsked, out, skipped, doc>>
    /\ UNCHANGED <<wxVars, mergeVars, dupVars>>

\* the extraction of stats_grab.fetch_odds_for_games on a decoded response
ApplyGrabTotals ==
    /\ script = "extract"
    /\ pc = "input"
    /\ quote' = GrabTotals(doc)
    /\ applied' = "stats_grab"
    /\ pc' = "output"
    /\ UNCHANGED <<script, rows, idx, processed, attempt, lastStatus, lastRet, lastCall,
                   lastLog, cur, sent, ts, noSnap, oddsAsked, out, skipped, doc>>
    /\ UNCHANGED <<wxVars, mergeVars, dupVars>>

NextExtract == ApplyFetchTotals \/ ApplyGrabTotals

SpecExtract == InitExtract /\ [][NextExtract]_vars

-----------------------------------------------------------------------------
(* stats_grab.fetch_odds_for_games                                          *)

\* a game as fetch_games_for_stadiums returns it
Game(i) ==
    [GameID |-> i, GameDate |-> HISTORICAL_CUTOFF + i, TotalRuns |-> Some(18),
     TotalRunLine |-> None, OddsOver |-> None, OddsUnder |-> None]

GamesOfLen(n) == [i \in 1..n |-> Game(i)]

\* `if resp.status_code == 422` and `if code == 422`: "no odds data, skipping"
IsNoOddsData(code) == code = 422

\* "retry once on rate limit": n is the number of the request just made
IsLastGrabAttempt(n) == n >= 2

\* what request n of a game does with response r and its body: ret is "retry",
\* "skip" (skipped += 1; continue), "raise" (an exception leaves the function)
\* or "ok" (the game is appended to out with the fields of odds)
GrabOutcome(r, n, body) ==
    IF r.kind = "conn"
    THEN [ret |-> "skip", log |-> {"error_skipping"}, odds |-> NoQuote]
    ELSE IF r.status = 429
    THEN IF IsLastGrabAttempt(n)
         THEN [ret |-> "skip", log |-> {"rate_limited_skipping"}, odds |-> NoQuote]
         ELSE [ret |-> "retry", log |-> {}, odds |-> NoQuote]
    ELSE IF IsNoOddsData(r.status)
    THEN [ret |-> "skip", log |-> {"no_odds_data_skipping"}, odds |-> NoQuote]
    ELSE IF RaisesForStatus(r.status)
    THEN [ret |-> "skip", log |-> {"http_code_skipping"}, odds |-> NoQuote]
    ELSE IF body.kind = "notjson"
    THEN [ret |-> "skip", log |-> {"error_skipping"}, odds |-> NoQuote]
    ELSE IF body.kind = "null"
    THEN [ret |-> "raise", log |-> {}, odds |-> NoQuote]
    ELSE IF TotalsMarkets(body.data) = {}
    THEN [ret |-> "skip", log |-> {"no_totals_market_skipping"}, odds |-> NoQuote]
    ELSE IF GrabTotals(body.data) = NoQuote
    THEN [ret |-> "skip", log |-> {"incomplete_odds_skipping"}, odds |-> NoQuote]
    ELSE [ret |-> "ok", log |-> {}, odds |-> GrabTotals(body.data)]

\* the lines of fetch_odds_for_games that report a failed request
GrabErrorLines == {"error_skipping", "http_code_skipping", "rate_limited_skipping"}

InitGrab ==
    /\ script = "stats_grab"
    /\ \E n \in 0..MaxRows : rows = GamesOfLen(n)
    /\ idx = 1
    /\ cur = 0
    /\ processed = 0
    /\ pc = "loop"
    /\ attempt = 0
    /\ lastStatus = NoResponse
    /\ lastRet = "-"
    /\ lastCall = "-"
    /\ lastLog = {}
    /\ sent = {}
    /\ ts = None
    /\ noSnap = {}
    /\ oddsAsked = {}
    /\ GrabIdle
    /\ HarnessIdle
    /\ WxIdle
    /\ MergeIdle
    /\ DupIdle

\* `for i, g in enumerate(games, start=1)` takes the next game
StartGame ==
    /\ script = "stats_grab"
    /\ pc = "loop"
    /\ idx <= Len(rows)
    /\ cur' = idx
    /\ pc' = "grab"
    /\ attempt' = 0
    /\ lastStatus' = NoResponse
    /\ lastRet' = "-"
    /\ lastCall' = "grab"
    /\ lastLog' = {}
    /\ sent' = {}
    /\ UNCHANGED <<script, rows, idx, processed, ts, noSnap, oddsAsked, out, skipped,
                   doc, quote, applied>>
    /\ UNCHANGED <<wxVars, mergeVars, dupVars>>

\* one session.get of the game and the rest of the loop body (lines 85-160)
GrabRequest ==
    /\ script = "stats_grab"
    /\ pc = "grab"
    /\ \E r \in Responses, body \in OddsBodies :
         LET n == attempt + 1
             g == GrabOutcome(r, n, body)
             ok200 == r.kind = "http" /\ r.status = 200
         IN  /\ ~ok200 => body = NotJson
             /\ attempt' = n
             /\ lastStatus' = r
             /\ lastCall' = "grab"
             /\ lastRet' = g.ret
             /\ lastLog' = g.log
             /\ sent' = sent \cup {[endpoint |-> "odds", date |-> rows[cur].GameDate]}
             /\ oddsAsked' = oddsAsked \cup {cur}
             /\ IF g.ret = "retry"
                THEN UNCHANGED <<pc, idx, rows, out, skipped>>
                ELSE IF g.ret = "raise"
                THEN /\ pc' = "crashed"
                     /\ UNCHANGED <<idx, rows, out, skipped>>
                ELSE IF g.ret = "skip"
                THEN /\ skipped' = skipped + 1
                     /\ idx' = cur + 1
                     /\ pc' = "loop"
                     /\ UNCHANGED <<rows, out>>
                ELSE /\ rows' = [rows EXCEPT ![cur].TotalRunLine = g.odds.TotalRunsLine,
                                             ![cur].OddsOver = g.odds.TotalOverOdds,
                                             ![cur].OddsUnder = g.odds.TotalUnderOdds]
                     /\ out' = Append(out, cur)
                     /\ idx' = cur + 1
                     /\ pc' = "loop"
                     /\ UNCHANGED skipped
    /\ UNCHANGED <<script, cur, processed, ts, noSnap, doc, quote, applied>>
    /\ UNCHANGED <<wxVars, mergeVars, dupVars>>

\* the loop is exhausted: `return out`
FinishGrab ==
    /\ script = "stats_grab"
    /\ pc = "loop"
    /\ idx > Len(rows)
    /\ pc' = "done"
    /\ UNCHANGED <<script, rows, idx, cur, processed, attempt, lastStatus, lastRet,
                   lastCall, lastLog, sent, ts, noSnap, oddsAsked, out, skipped,
                   doc, quote, applied>>
    /\ UNCHANGED <<wxVars, mergeVars, dupVars>>

NextGrab == StartGame \/ GrabRequest \/ FinishGrab

SpecGrab == InitGrab /\ [][NextGrab]_vars

-----------------------------------------------------------------------------
(* Claims C1 - C10                                                          *)

\* C1 (as claimed): every historical-odds request issued for an event carries
\* as its date the token returned by that event's snapshot lookup.
C1_OddsDateIsSnapshotToken ==
    \A q \in sent : q.endpoint = "odds" => (ts # None /\ q.date = Val(ts))

\* C2: when the snapshot lookup of an event yields no token, no odds request
\* is issued for it, its seven odds and outcome columns stay null, and the
\* loop goes on to the following rows (it neither stops nor fails).
C2_NoSnapshotSkipsOnlyOdds ==
    \A i \in noSnap :
        /\ i \notin oddsAsked
        /\ IsBlank(rows[i])
        /\ pc # "crashed" => idx > i
        /\ (i = cur /\ lastCall = "snap") =>
              /\ pc \in {"loop", "done"}
              /\ idx <= Len(rows) => Eligible(script, rows[idx])
              /\ \A j \in (i + 1)..(idx - 1) : ~Eligible(script, rows[j])

\* C2 witness: the first row got no snapshot and the odds of the second row are being requested.
C2_Witness ==
    /\ script \in OddsScripts
    /\ 1 \in noSnap
    /\ cur = 2
    /\ pc = "odds"

\* the totals markets of a document, as the claims describe them
HasTotals(b) == \E m \in DOMAIN b.markets : b.markets[m].key = "totals"

TotalsOf(b) ==
    b.markets[CHOOSE m \in DOMAIN b.markets : b.markets[m].key = "totals"]

OutcomeNamed(mk, nm) ==
    mk.outcomes[CHOOSE i \in DOMAIN mk.outcomes : mk.outcomes[i].name = nm]

HasBothSides(mk) ==
    /\ \E i \in DOMAIN mk.outcomes : mk.outcomes[i].name = "Over"
    /\ \E i \in DOMAIN mk.outcomes : mk.outcomes[i].name = "Under"

\* both Over and Under outcomes with a defined point
IsCompleteMarket(mk) ==
    /\ HasBothSides(mk)
    /\ \A i \in DOMAIN mk.outcomes : mk.outcomes[i].point # None

\* a complete market with both prices
IsFullMarket(mk) ==
    /\ IsCompleteMarket(mk)
    /\ \A i \in DOMAIN mk.outcomes : mk.outcomes[i].price # None

QuoteIsFull(q) ==
    q.TotalRunsLine # None /\ q.TotalOverOdds # None /\ q.TotalUnderOdds # None

\* C3 (as claimed): every result of the totals extractor is all-or-nothing,
\* line and both prices non-null, or NoData with every quote field null.
C3_QuoteAllOrNothing ==
    applied # "none" => (QuoteIsFull(quote) \/ quote = NoQuote)

\* C4: when the first bookmaker with a totals market offers a full one, the
\* line, both prices and the book id all come from that bookmaker, whatever
\* the later bookmakers offer.
C4_FirstBookmakerWins ==
    \A k \in DOMAIN doc :
        ( /\ applied # "none"
          /\ HasTotals(doc[k])
          /\ \A j \in 1..(k - 1) : ~HasTotals(doc[j])
          /\ IsFullMarket(TotalsOf(doc[k])) )
        => /\ quote.TotalRunsLine = OutcomeNamed(TotalsOf(doc[k]), "Over").point
           /\ quote.TotalRunsLine = Some(LineAt(k))
           /\ quote.TotalOverOdds = OutcomeNamed(TotalsOf(doc[k]), "Over").price
           /\ quote.TotalUnderOdds = OutcomeNamed(TotalsOf(doc[k]), "Under").price
           /\ applied \in OddsScripts => quote.Sportbook = doc[k].key

\* C4 witness: two bookmakers with full totals markets and different lines,
\* and the quote of the first.
C4_Witness ==
    /\ applied \in OddsScripts
    /\ Len(doc) = 2
    /\ HasTotals(doc[1]) /\ IsFullMarket(TotalsOf(doc[1]))
    /\ HasTotals(doc[2]) /\ IsFullMarket(TotalsOf(doc[2]))
    /\ quote.TotalRunsLine = Some(LineAt(1))
    /\ quote.Sportbook = Some(1)

\* C5 (as claimed): the extractor returns NoData exactly when no bookmaker
\* offers a complete totals market.
C5_NoDataIffNoCompleteMarket ==
    applied # "none" =>
        ( quote = NoQuote
          <=> ~\E k \in DOMAIN doc :
                 HasTotals(doc[k]) /\ IsCompleteMarket(TotalsOf(doc[k])) )

\* C6: with a line, Outcome is Push iff the realized total equals the line,
\* Over iff it is greater, Under otherwise; Outcome is null iff the line is
\* null; the prices play no part.
C6_OutcomeFromTotalAndLine ==
    \A i \in DOMAIN rows :
        script \in OddsScripts \cup {"extract"} =>
        LET row == rows[i]
            line == row.TotalRunsLine
            runs == row.TotalRuns
            equal == runs # NaN /\ runs = line
            greater == runs # NaN /\ Val(runs) > Val(line)
        IN  /\ row.Outcome = None <=> line = None
            /\ line # None =>
                  /\ row.Outcome = Some("Push") <=> equal
                  /\ row.Outcome = Some("Over") <=> greater
                  /\ row.Outcome = Some("Under") <=> (~equal /\ ~greater)

\* C6 witness: a Push on a quote that has no over price.
C6_Witness ==
    /\ applied \in OddsScripts
    /\ rows[1].Outcome = Some("Push")
    /\ rows[1].TotalRunsLine = Some(18)
    /\ rows[1].TotalOverOdds = None

\* the price used for a payout: 0 for a missing price
PriceOrZero(p) == IF p = None THEN 0 ELSE Val(p)

PayoutPairAsSpecified(row) ==
    /\ row.Outcome = Some("Push") =>
          row.OverPayout = Some(10000) /\ row.UnderPayout = Some(10000)
    /\ row.Outcome = Some("Over") =>
          /\ row.OverPayout = Some(100 * PriceOrZero(row.TotalOverOdds))
          /\ row.UnderPayout = Some(0)
    /\ row.Outcome = Some("Under") =>
          /\ row.OverPayout = Some(0)
          /\ row.UnderPayout = Some(100 * PriceOrZero(row.TotalUnderOdds))

\* C7 (as claimed): the payout pair is (100, 100) for Push, (100 x over, 0)
\* for Over, (0, 100 x under) for Under, a missing price counting as 0, and
\* exactly one side is non-zero unless the outcome is Push.
C7_ExactlyOneSidePaid ==
    \A i \in DOMAIN rows :
        script \in OddsScripts \cup {"extract"} =>
        /\ PayoutPairAsSpecified(rows[i])
        /\ rows[i].Outcome \in {Some("Over"), Some("Under")} =>
              (rows[i].OverPayout = Some(0)) # (rows[i].UnderPayout = Some(0))

\* C7 (amended): the payout pair is as above, a missing price counting as 0;
\* unless the outcome is Push the losing side is paid 0, and the winning side
\* is paid a non-zero amount exactly when its price is present.
C7_LosingSidePaidZero ==
    \A i \in DOMAIN rows :
        script \in OddsScripts \cup {"extract"} =>
        /\ PayoutPairAsSpecified(rows[i])
        /\ rows[i].Outcome = Some("Over") =>
              /\ rows[i].UnderPayout = Some(0)
              /\ rows[i].OverPayout # Some(0) <=> rows[i].TotalOverOdds # None
        /\ rows[i].Outcome = Some("Under") =>
              /\ rows[i].OverPayout = Some(0)
              /\ rows[i].UnderPayout # Some(0) <=> rows[i].TotalUnderOdds # None

\* C7 witness: an Over whose over price is missing, both sides paid 0.
C7_Witness ==
    /\ applied \in OddsScripts
    /\ rows[1].Outcome = Some("Over")
    /\ rows[1].TotalOverOdds = None
    /\ rows[1].OverPayout = Some(0)
    /\ rows[1].UnderPayout = Some(0)

\* a request of the running safe_get has been answered and the call goes on
InCallAfterRequest ==
    pc \in {"snap", "odds"} /\ lastCall = pc /\ attempt >= 1

IsErrorStatus(r) == r.kind = "http" /\ r.status >= 400 /\ r.status <= 599

\* C8: safe_get issues at most Retries requests, a further request only
\* after a 429, and any other response or a connection error ends the call.
C8_BoundedRetryOn429Only ==
    script \in OddsScripts =>
    /\ attempt <= Retries
    /\ InCallAfterRequest => (lastStatus = Http(429) /\ attempt < Retries)
    /\ lastStatus # NoResponse /\ lastStatus # Http(429) => lastRet # "retry"
    /\ lastRet = "retry" => InCallAfterRequest

\* C8 witness: two 429 answers in a row, the third request still to come.
C8_Witness ==
    /\ script \in OddsScripts
    /\ pc = "odds"
    /\ lastCall = "odds"
    /\ attempt = Retries - 1
    /\ lastStatus = Http(429)

\* C9 (as claimed): a 404 or a 422 makes the fetcher return NoData at once,
\* without a retry and without an error or warning line, and the batch goes on.
C9_SoftNoDataIsSilent ==
    (script \in OddsScripts /\ lastStatus \in {Http(404), Http(422)}) =>
        /\ lastRet = "none"
        /\ lastLog \cap FetcherLines = {}
        /\ pc # "crashed"

\* the loop has left the event of row cur and stands at the next row it visits
SkippedOnlyCurrent ==
    /\ pc \in {"loop", "done"}
    /\ idx > cur
    /\ idx <= Len(rows) => Eligible(script, rows[idx])
    /\ \A j \in (cur + 1)..(idx - 1) : ~Eligible(script, rows[j])
    /\ rows[cur].TotalRunsLine = None /\ rows[cur].Outcome = None

\* C10 (as claimed): a connection failure, a non-2xx status other than 429,
\* and Retries consecutive 429 each make safe_get return None after logging.
C10_EveryFailureLogged ==
    ( /\ script \in OddsScripts
      /\ \/ lastStatus = ConnError
         \/ lastStatus.kind = "http" /\ lastStatus.status \notin 200..299
                                     /\ lastStatus.status # 429
         \/ lastStatus = Http(429) /\ attempt = Retries )
    => /\ lastRet = "none"
       /\ lastLog \cap FetcherLines # {}
       /\ SkippedOnlyCurrent

\* C10 (amended): a connection failure, a 4xx or 5xx status other than 429 and
\* 404, and Retries consecutive 429 each make safe_get return None after
\* logging; a 404 makes it return None without a line; no exception leaves
\* safe_get, and the caller skips only the current event.
C10_FailureReturnsNone ==
    script \in OddsScripts =>
    /\ lastStatus = ConnError =>
          lastRet = "none" /\ "request_error" \in lastLog
    /\ IsErrorStatus(lastStatus) /\ lastStatus.status \notin {429, 404} =>
          lastRet = "none" /\ "http_error" \in lastLog
    /\ lastStatus = Http(404) =>
          lastRet = "none" /\ lastLog \cap FetcherLines = {}
    /\ lastStatus = Http(429) /\ attempt = Retries =>
          lastRet = "none" /\ "failed_after_retries" \in lastLog
    /\ lastRet = "none" => SkippedOnlyCurrent
    /\ lastRet = "raise" => lastStatus = Http(200)

\* C10 witness: the third 429 in a row on the first event, the loop at the
\* second.
C10_Witness ==
    /\ script \in OddsScripts
    /\ lastStatus = Http(429)
    /\ attempt = Retries
    /\ lastRet = "none"
    /\ "failed_after_retries" \in lastLog
    /\ cur = 1
    /\ idx = 2
    /\ pc = "loop"

-----------------------------------------------------------------------------
(* The batch as a whole                                                     *)

\* C11 (as claimed): whatever the fetches of the events answer, the event loop
\* of get_odds.main never stops before the table is written, and at the end
\* every eligible row has been visited.
C11_BatchAlwaysCompletes ==
    script = "get_odds" =>
        /\ pc # "crashed"
        /\ pc = "done" =>
              \A j \in DOMAIN rows :
                  Eligible(script, rows[j]) => j \in (noSnap \cup oddsAsked)

-----------------------------------------------------------------------------
(* Weather aggregation: get_weather.get_3hr_weather_avg and                  *)
(* stats_grab.get_2hr_weather_avg                                            *)
(*                                                                           *)
(* Times are integers counted in half-hours.  Temperatures, humidities and   *)
(* wind speeds are integers and their means are counted in hundredths.       *)
(* Directions are whole degrees on input and millidegrees on output.         *)
(*                                                                           *)
(* A float that may be smaller than the working resolution is a record      *)
(* [m, e]: m counts millionths (or millidegrees for an angle) of its exact   *)
(* real value, and e counts units of 2^-60 of the IEEE double rounding       *)
(* error it carries.  e decides the sign where m is 0.                       *)

MaxHours == 3        \* hourly samples in a weather payload

\* the hours of the payload: 05:00, 06:00, 07:00, ...
SampleTime(k) == 8 + 2 * k

\* timedelta(hours=1.5) in get_3hr_weather_avg, timedelta(hours=1) in get_2hr_weather_avg
HalfWidth(agg) == IF agg = "get_3hr_weather_avg" THEN 3 ELSE 2

Aggregators == {"get_3hr_weather_avg", "get_2hr_weather_avg"}

\* wind directions of the samples
Dirs == {0, 10, 90, 180, 350}

\* math.sin(math.radians(d)) and math.cos(math.radians(d)): exact value in
\* millionths
SinMicro(d) ==
    CASE d = 0 -> 0
      [] d = 10 -> 173648
      [] d = 90 -> 1000000
      [] d = 180 -> 0
      [] d = 350 -> -173648

CosMicro(d) ==
    CASE d = 0 -> 1000000
      [] d = 10 -> 984808
      [] d = 90 -> 0
      [] d = 180 -> -1000000
      [] d = 350 -> 984808

\* math.sin(math.radians(d)) and math.cos(math.radians(d)): the double minus
\* the exact value, in units of 2^-60
SinErr(d) ==
    CASE d = 0 -> 0
      [] d = 10 -> -20
      [] d = 90 -> 0
      [] d = 180 -> 141
      [] d = 350 -> -44

CosErr(d) ==
    CASE d = 0 -> 0
      [] d = 10 -> -45
      [] d = 90 -> 71
      [] d = 180 -> 0
      [] d = 350 -> -45

Abs(x) == IF x < 0 THEN -x ELSE x
Sign(x) == IF x > 0 THEN 1 ELSE IF x < 0 THEN -1 ELSE 0

\* float division by a count: the quotient of m, and a quotient of e that
\* keeps a non-zero error non-zero
Quot(a, n) == IF a >= 0 THEN a \div n ELSE -((-a) \div n)
QuotAway(a, n) == IF a >= 0 THEN (a + n - 1) \div n ELSE -((-a + n - 1) \div n)
FloatDiv(x, n) == [m |-> Quot(x.m, n), e |-> QuotAway(x.e, n)]

RECURSIVE SumFrom(_, _)
SumFrom(xs, i) == IF i > Len(xs) THEN 0 ELSE xs[i] + SumFrom(xs, i + 1)

\* sum(xs)
Sum(xs) == SumFrom(xs, 1)

\* [x[name] for x in xs]: one of the parallel lists
Column(xs, name) == [k \in DOMAIN xs |-> xs[k][name]]

\* the values of a list of present values
Values(xs) == [k \in DOMAIN xs |-> Val(xs[k])]

\* the arctangent of t thousandths, 0 <= t <= 1000, in millidegrees (to 0.15 degree)
AtanUnit(t) ==
    45 * t + (((t * (1000 - t)) \div 10) * (1402 + (38 * t) \div 100)) \div 10000

RECURSIVE AtanFirst(_, _)
\* atan2(y, x) for y >= 0, x >= 0, not both 0, in millidegrees
AtanFirst(y, x) ==
    IF y <= x
    THEN IF x < 2000000 THEN AtanUnit((1000 * y) \div x)
         ELSE AtanUnit(y \div (x \div 1000))
    ELSE 90000 - AtanFirst(x, y)

\* math.degrees(math.atan2(y, x)) on integers, in millidegrees, -180000 .. 180000
AtanMilli(y, x) ==
    IF x = 0 /\ y = 0 THEN 0
    ELSE LET a == AtanFirst(Abs(y), Abs(x))
             r == IF x >= 0 THEN a ELSE 180000 - a
         IN  IF y >= 0 THEN r ELSE -r

\* math.degrees(math.atan2(s, c)) on floats
Atan2Degrees(s, c) ==
    IF s.m = 0 /\ c.m = 0 THEN [m |-> AtanMilli(s.e, c.e), e |-> 0]
    ELSE IF s.m = 0
    THEN IF c.m > 0 THEN [m |-> 0, e |-> Sign(s.e)]
         ELSE [m |-> IF s.e >= 0 THEN 180000 ELSE -180000, e |-> 0]
    ELSE [m |-> AtanMilli(s.m, c.m), e |-> 0]

\* `% 360` on a float of -180 .. 180 degrees, in millidegrees: the sum of 360
\* and a negative angle below the resolution of a double at 360 rounds to 360.0
Mod360(a) ==
    IF a.m > 0 THEN a.m
    ELSE IF a.m < 0 THEN a.m + 360000
    ELSE IF a.e < 0 THEN 360000
    ELSE 0

\* lines 85-89 (stats_grab 209-211): the circular mean of the directions dirs
CircularMean(dirs) ==
    LET n == Len(dirs)
        sin_sum == [m |-> Sum([k \in DOMAIN dirs |-> SinMicro(dirs[k])]),
                    e |-> Sum([k \in DOMAIN dirs |-> SinErr(dirs[k])])]
        cos_sum == [m |-> Sum([k \in DOMAIN dirs |-> CosMicro(dirs[k])]),
                    e |-> Sum([k \in DOMAIN dirs |-> CosErr(dirs[k])])]
    IN  Mod360(Atan2Degrees(FloatDiv(sin_sum, n), FloatDiv(cos_sum, n)))

\* sum(xs) / len(xs), in hundredths
MeanHundredths(xs) == (100 * Sum(xs)) \div Len(xs)

\* one hourly sample of the archive answer; a value the archive does not have is null
WxSamples ==
    {[temp |-> Some(10), hum |-> 40, wspd |-> 2, wdir |-> 350, code |-> 0],
     [temp |-> Some(20), hum |-> 60, wspd |-> 4, wdir |-> 10, code |-> 0],
     [temp |-> Some(10), hum |-> 40, wspd |-> 2, wdir |-> 0, code |-> 3],
     [temp |-> Some(20), hum |-> 60, wspd |-> 4, wdir |-> 180, code |-> 3],
     [temp |-> Some(20), hum |-> 40, wspd |-> 4, wdir |-> 90, code |-> 0],
     [temp |-> None, hum |-> 60, wspd |-> 2, wdir |-> 10, code |-> 3]}

\* the "hourly" object of an answer: parallel lists, here one record per hour,
\* the first hour being the k0-th of the model's hours
HourlyFrom(k0, f) ==
    [k \in DOMAIN f |->
        [time |-> SampleTime(k0 + k - 1), temp |-> f[k].temp, hum |-> f[k].hum,
         wspd |-> f[k].wspd, wdir |-> f[k].wdir, code |-> f[k].code]]

Hourly(f) == HourlyFrom(1, f)

\* weather_map.get(most_code, "Unknown")
weather_map(code) ==
    CASE code = 0 -> "Clear sky"
      [] code = 3 -> "Overcast"
      [] OTHER -> "Unknown"

\* Counter(codes).most_common(1)[0][0]: the most frequent code, the one seen
\* first among equally frequent ones
most_common(codes) ==
    LET count(c) == Cardinality({k \in DOMAIN codes : codes[k] = c})
        first(c) == FirstIndex({k \in DOMAIN codes : codes[k] = c})
        seen == {codes[k] : k \in DOMAIN codes}
    IN  CHOOSE c \in seen :
            \A d \in seen : count(c) > count(d)
                            \/ (count(c) = count(d) /\ first(c) <= first(d))

\* what an aggregator call did: kind is "none" (not called), "ok" (the summary
\* was returned) or "raised" (an exception left it); used is the set of the
\* samples that were appended to the lists
NoCall ==
    [kind |-> "none", error |-> "-", used |-> {},
     average_temperature_C |-> None, average_humidity_percent |-> None,
     average_wind_speed_m_s |-> None, average_wind_direction_degrees |-> None,
     most_common_condition |-> None]

Raised(err, usd) == [NoCall EXCEPT !.kind = "raised", !.error = err, !.used = usd]

\* faulty variant: the ends of the window are left out
StrictlyInWindow(agg, event_time, t) ==
    event_time - HalfWidth(agg) < t /\ t < event_time + HalfWidth(agg)

\* `if start_window <= t <= end_window`
InWindow(agg, event_time, t) ==
    event_time - HalfWidth(agg) <= t /\ t <= event_time + HalfWidth(agg)

\* faulty variant: an empty window gives a summary of zeros
EmptyWindowResult(usd) ==
    [NoCall EXCEPT !.kind = "ok", !.used = usd,
                   !.average_temperature_C = Some(0), !.average_humidity_percent = Some(0),
                   !.average_wind_speed_m_s = Some(0),
                   !.average_wind_direction_degrees = Some(0),
                   !.most_common_condition = Some("Unknown")]

\* `if not temps: raise ValueError("No weather data available ...")`
EmptyWindow(usd) == Raised("no_weather_data", usd)

\* the aggregator from the decoded "hourly" object on (get_weather lines 60-112,
\* stats_grab lines 188-232)
weather_avg(agg, event_time, h) ==
    LET Inside(s) == InWindow(agg, event_time, s.time)
        win == SelectSeq(h, Inside)
        usd == {k \in DOMAIN h : Inside(h[k])}
    IN  IF win = <<>> THEN EmptyWindow(usd)
        ELSE IF \E k \in DOMAIN win : win[k].temp = None THEN Raised("type_error", usd)
        ELSE [kind |-> "ok", error |-> "-", used |-> usd,
              average_temperature_C |-> Some(MeanHundredths(Values(Column(win, "temp")))),
              average_humidity_percent |-> Some(MeanHundredths(Column(win, "hum"))),
              average_wind_speed_m_s |-> Some(MeanHundredths(Column(win, "wspd"))),
              average_wind_direction_degrees |-> Some(CircularMean(Column(win, "wdir"))),
              most_common_condition |-> Some(weather_map(most_common(Column(win, "code"))))]

get_3hr_weather_avg(event_time, h) == weather_avg("get_3hr_weather_avg", event_time, h)
get_2hr_weather_avg(event_time, h) == weather_avg("get_2hr_weather_avg", event_time, h)

\* the bodies the weather archive answers with in the batches: not JSON, or
\* an hourly object of no sample or of one sample at 05:00 or at 08:00
WxBodies ==
    {NotJson}
    \cup {[kind |-> "json", hourly |-> HourlyFrom(k0, f)] :
            k0 \in {1, 4}, f \in UNION {[1..k -> WxSamples] : k \in 0..1}}

\* an aggregator call with its request: requests.get, raise_for_status,
\* resp.json().get("hourly", {}) and the aggregation
weather_call(agg, event_time, r, body) ==
    IF r.kind = "conn" THEN Raised("request_error", {})
    ELSE IF RaisesForStatus(r.status) THEN Raised("http_error", {})
    ELSE IF body.kind = "notjson" THEN Raised("decode_error", {})
    ELSE weather_avg(agg, event_time, body.hourly)

-----------------------------------------------------------------------------
(* The aggregators applied to one decoded answer                            *)

\* a game whose start is t
WxGame(t) == [Game(1) EXCEPT !.GameDate = t]

\* starts of the game: 05:30, 06:00, 08:30, 10:30
GameTimes == {11, 12, 17, 21}

InitWeather ==
    /\ script = "weather"
    /\ pc = "input"
    /\ \E t \in GameTimes : rows = <<WxGame(t)>>
    /\ \E n \in 0..MaxHours : \E f \in [1..n -> WxSamples] : hourly = <<Hourly(f)>>
    /\ wx = <<NoCall>>
    /\ wxOf = <<None>>
    /\ enriched = <<>>
    /\ written = None
    /\ LoopIdle
    /\ GrabIdle
    /\ HarnessIdle
    /\ MergeIdle
    /\ DupIdle

\* get_3hr_weather_avg on the decoded answer
Apply3hr ==
    /\ script = "weather"
    /\ pc = "input"
    /\ wx' = <<get_3hr_weather_avg(rows[1].GameDate, hourly[1])>>
    /\ applied' = "get_3hr_weather_avg"
    /\ pc' = "output"
    /\ UNCHANGED <<script, rows, idx, processed, attempt, lastStatus, lastRet, lastCall,
                   lastLog, cur, sent, ts, noSnap, oddsAsked, out, skipped, doc, quote>>
    /\ UNCHANGED <<hourly, wxOf, enriched, written, mergeVars, dupVars>>

\* get_2hr_weather_avg on the decoded answer
Apply2hr ==
    /\ script = "weather"
    /\ pc = "input"
    /\ wx' = <<get_2hr_weather_avg(rows[1].GameDate, hourly[1])>>
    /\ applied' = "get_2hr_weather_avg"
    /\ pc' = "output"
    /\ UNCHANGED <<script, rows, idx, processed, attempt, lastStatus, lastRet, lastCall,
                   lastLog, cur, sent, ts, noSnap, oddsAsked, out, skipped, doc, quote>>
    /\ UNCHANGED <<hourly, wxOf, enriched, written, mergeVars, dupVars>>

NextWeather == Apply3hr \/ Apply2hr

SpecWeather == InitWeather /\ [][NextWeather]_vars

-----------------------------------------------------------------------------
(* eventids.main: the day loop and the merge into input.xlsx                *)

MaxIds == 2          \* distinct event identifiers
MaxDays == 2         \* days of the backfill loop

\* a row of the table: the identifier, a column the events endpoint delivers,
\* and a column that a later script adds (NaN on a freshly fetched row)
Row(i, team, line) == [id |-> i, home_team |-> team, TotalRunsLine |-> line]

\* an event as the events endpoint delivers it
Event(i, team) == [id |-> i, home_team |-> team]

Events == {Event(i, team) : i \in 1..MaxIds, team \in {"A", "B"}}

\* what one day's fetch_snapshot_events returns
DayEvents == {<<>>} \cup {<<e>> : e \in Events}

\* rows of input.xlsx left by earlier runs
PrevRows(i) == {Row(i, "A", None), Row(i, "A", Some(17))}

RECURSIVE PrevTablesOver(_)
\* the tables with one row for each identifier of ids, in any order
PrevTablesOver(ids) ==
    IF ids = {} THEN {<<>>}
    ELSE UNION {{Append(t, r) : t \in PrevTablesOver(ids \ {i}), r \in PrevRows(i)} : i \in ids}

PrevTables == UNION {PrevTablesOver(ids) : ids \in SUBSET (1..MaxIds)}

\* normalize(events): one row of the target columns per event
normalize(events) ==
    [k \in DOMAIN events |-> Row(events[k].id, events[k].home_team, NaN)]

\* faulty variant: rows are duplicates only when all their columns agree
SeenWholeRow(kept, r) == \E k \in DOMAIN kept : kept[k] = r

\* subset=["id"]: r repeats a row already kept
Seen(kept, r) == \E k \in DOMAIN kept : kept[k].id = r.id

RECURSIVE KeepAll(_)
\* faulty variant: nothing is dropped
KeepAll(t) ==
    IF t = <<>> THEN <<>>
    ELSE Append(KeepAll(SubSeq(t, 1, Len(t) - 1)), t[Len(t)])

RECURSIVE drop_duplicates(_)
\* df_all.drop_duplicates(subset=["id"]): the first row of every id, in order
drop_duplicates(t) ==
    IF t = <<>> THEN <<>>
    ELSE LET kept == drop_duplicates(SubSeq(t, 1, Len(t) - 1))
             r == t[Len(t)]
         IN  IF Seen(kept, r) THEN kept ELSE Append(kept, r)

\* lines 101-106: pd.concat([df_prev, df_new]) and the deduplication
merge(previous_table, new_rows) == drop_duplicates(previous_table \o new_rows)

InitEventIds ==
    /\ script = "eventids"
    /\ pc = "days"
    /\ table \in PrevTables
    /\ all_events = <<>>
    /\ day = 1
    /\ prevTable = <<>>
    /\ batch = <<>>
    /\ rows = <<>>
    /\ LoopIdle
    /\ GrabIdle
    /\ HarnessIdle
    /\ WxIdle
    /\ DupIdle

\* faulty variant: the day cursor stays where it is after an error
RetryDay(d) == d

\* the except branch: `day_cursor += one_day` before `continue` (line 87)
SkipDay(d) == d + 1

\* one iteration of the day loop (lines 77-97): the fetch of the day fails and
\* the day is skipped, or its events are appended; attempt counts the fetches,
\* sent holds the days asked for, doc the events of the latest answer
FetchDay ==
    /\ script = "eventids"
    /\ pc = "days"
    /\ day <= MaxDays
    /\ attempt' = attempt + 1
    /\ sent' = sent \cup {[endpoint |-> "events", date |-> day]}
    /\ \/ /\ lastRet' = "raise"
          /\ lastLog' = {"error_skipping"}
          /\ doc' = <<>>
          /\ UNCHANGED all_events
          /\ day' = SkipDay(day)
       \/ \E events \in DayEvents :
             /\ lastRet' = "resp"
             /\ doc' = events
             /\ all_events' = all_events \o events
             /\ lastLog' = IF events # <<>> THEN {"fetched"} ELSE {}
             /\ day' = day + 1
    /\ UNCHANGED <<script, rows, idx, processed, pc, lastStatus, lastCall,
                   cur, ts, noSnap, oddsAsked, out, skipped, quote, applied>>
    /\ UNCHANGED <<table, prevTable, batch, wxVars, dupVars>>

\* lines 99-111: normalize, load_previous, concat, drop_duplicates, save_to_excel
MergeAndSave ==
    /\ script = "eventids"
    /\ pc = "days"
    /\ day > MaxDays
    /\ LET df_new == normalize(all_events)
           df_prev == table
       IN  /\ table' = merge(df_prev, df_new)
           /\ prevTable' = df_prev
           /\ batch' = df_new
    /\ lastLog' = {"saved"}
    /\ pc' = "saved"
    /\ UNCHANGED <<script, rows, idx, processed, attempt, lastStatus, lastRet, lastCall,
                   cur, sent, ts, noSnap, oddsAsked, out, skipped, doc, quote, applied>>
    /\ UNCHANGED <<all_events, day, wxVars, dupVars>>

NextEventIds == FetchDay \/ MergeAndSave

SpecEventIds == InitEventIds /\ [][NextEventIds]_vars

\* the rows of t that carry identifier i
RowsOf(t, i) == {k \in DOMAIN t : t[k].id = i}

\* C13: after the merge every identifier of the previous table and of the
\* fetched rows is on exactly one row, and an identifier of the previous table
\* keeps its previous row, unchanged.
C13_MergeKeepsPreviousRows ==
    pc = "saved" =>
        /\ \A i \in {prevTable[k].id : k \in DOMAIN prevTable}
                    \cup {batch[k].id : k \in DOMAIN batch} :
               Cardinality(RowsOf(table, i)) = 1
        /\ \A k \in DOMAIN prevTable :
               \A j \in RowsOf(table, prevTable[k].id) : table[j] = prevTable[k]

\* C13 witness: a fetched row that differs from the previous row of its
\* identifier, and a fetched row with a new identifier.
C13_Witness ==
    /\ pc = "saved"
    /\ \E k \in DOMAIN prevTable : \E j \in DOMAIN batch :
          /\ batch[j].id = prevTable[k].id
          /\ batch[j] # prevTable[k]
    /\ Len(table) > Len(prevTable)

\* C14: merging the same fetched rows a second time changes nothing: the
\* table is the same row for row and in the same order.
C14_MergeIdempotent ==
    pc = "saved" =>
        /\ table = merge(prevTable, batch)
        /\ merge(table, batch) = table

\* C14 witness: a merge that added a row and dropped a fetched duplicate.
C14_Witness ==
    /\ pc = "saved"
    /\ Len(table) > Len(prevTable)
    /\ Len(table) < Len(prevTable) + Len(batch)

-----------------------------------------------------------------------------
(* check.find_duplicates_loops                                              *)

MaxRecords == 3      \* rows of the train and the test sheet together

\* the compared columns (cols) and the cells of a sheet
CompareCols == {1, 2}
Cells == {Some(1), Some(2), NaN}
RowValues == [CompareCols -> Cells]

\* records.append((sheet, idx + 2, row[cols].tolist())), train first and then
\* test: k of the n rows are on the train sheet
Record(p, k, vals) ==
    [sheet |-> IF p <= k THEN "train" ELSE "test",
     row |-> (IF p <= k THEN p ELSE p - k) + 1,
     vals |-> vals]

\* faulty variant: two missing values are not taken as equal
NeverBothMissing(a, b) == FALSE

\* `if pd.isna(a) and pd.isna(b): continue`
BothMissing(a, b) == a = NaN /\ b = NaN

\* `a != b` on cells: a NaN differs from everything
NotEqual(a, b) == a = NaN \/ b = NaN \/ a # b

\* lines 29-36: the AND over the zipped values
all_equal(vals_i, vals_j) ==
    \A c \in CompareCols :
        BothMissing(vals_i[c], vals_j[c]) \/ ~NotEqual(vals_i[c], vals_j[c])

\* faulty variant: the inner loop starts at the record itself
SamePartner(i) == i

\* `for j in range(i + 1, n)`
FirstPartner(i) == i + 1

RECURSIVE PairAt(_, _, _)
\* the pair the nested loops are at when the inner index has reached j: the
\* loops step on while the inner range is exhausted
PairAt(i, j, n) ==
    IF i > n THEN <<n + 1, n + 1>>
    ELSE IF j > n THEN PairAt(i + 1, FirstPartner(i + 1), n)
    ELSE <<i, j>>

InitCheck ==
    /\ script = "check"
    /\ pc = "compare"
    /\ \E n \in 0..MaxRecords : \E k \in 0..n : \E f \in [1..n -> RowValues] :
          /\ records = [p \in 1..n |-> Record(p, k, f[p])]
          /\ pair = PairAt(1, FirstPartner(1), n)
    /\ duplicates = <<>>
    /\ rows = <<>>
    /\ LoopIdle
    /\ GrabIdle
    /\ HarnessIdle
    /\ WxIdle
    /\ MergeIdle

\* one iteration of the inner loop (lines 26-39)
ComparePair ==
    /\ script = "check"
    /\ pc = "compare"
    /\ pair[1] <= Len(records)
    /\ LET i == pair[1]
           j == pair[2]
           ri == records[i]
           rj == records[j]
       IN  /\ duplicates' =
                 IF all_equal(ri.vals, rj.vals)
                 THEN Append(duplicates, << <<ri.sheet, ri.row>>, <<rj.sheet, rj.row>> >>)
                 ELSE duplicates
           /\ pair' = PairAt(i, j + 1, Len(records))
    /\ UNCHANGED <<script, rows, idx, processed, pc, attempt, lastStatus, lastRet, lastCall,
                   lastLog, cur, sent, ts, noSnap, oddsAsked, out, skipped, doc, quote,
                   applied>>
    /\ UNCHANGED <<records, wxVars, mergeVars>>

\* lines 41-68: the report
Report ==
    /\ script = "check"
    /\ pc = "compare"
    /\ pair[1] > Len(records)
    /\ lastLog' = IF duplicates = <<>> THEN {"no_duplicates"} ELSE {"found_duplicates"}
    /\ pc' = "reported"
    /\ UNCHANGED <<script, rows, idx, processed, attempt, lastStatus, lastRet, lastCall,
                   cur, sent, ts, noSnap, oddsAsked, out, skipped, doc, quote, applied>>
    /\ UNCHANGED <<dupVars, wxVars, mergeVars>>

NextCheck == ComparePair \/ Report

SpecCheck == InitCheck /\ [][NextCheck]_vars

\* the name a record is reported under
NameOf(r) == <<r.sheet, r.row>>

\* the entries of duplicates that name records a and b in this order
Reports(a, b) ==
    {k \in DOMAIN duplicates : duplicates[k] = <<NameOf(records[a]), NameOf(records[b])>>}

\* in every compared column the two values are equal or both missing
SameValues(a, b) ==
    \A c \in CompareCols :
        \/ records[a].vals[c] = NaN /\ records[b].vals[c] = NaN
        \/ /\ records[a].vals[c] # NaN
           /\ records[b].vals[c] # NaN
           /\ Val(records[a].vals[c]) = Val(records[b].vals[c])

\* C15: a pair of records, from either sheet, is reported if and only if in
\* every compared column the two values are equal or both missing.
C15_ReportedIffAllColumnsMatch ==
    pc = "reported" =>
        \A a, b \in DOMAIN records :
            a < b => ((Reports(a, b) \cup Reports(b, a) # {}) <=> SameValues(a, b))

\* C15 witness: a train record and a test record that agree, with a missing
\* value in the same column, are reported; a pair with a missing value against
\* a present one is not.
C15_Witness ==
    /\ pc = "reported"
    /\ \E a, b \in DOMAIN records :
          /\ records[a].sheet = "train" /\ records[b].sheet = "test"
          /\ records[a].vals[1] = NaN /\ records[b].vals[1] = NaN
          /\ Reports(a, b) # {}
    /\ \E a, b \in DOMAIN records :
          /\ a < b
          /\ records[a].vals[2] = NaN /\ records[b].vals[2] # NaN
          /\ records[a].vals[1] = records[b].vals[1]
          /\ Reports(a, b) = {}

\* C16: two distinct records with the same values are reported exactly once,
\* the earlier record first, and no record is reported against itself.
C16_EachPairOnce ==
    /\ \A k \in DOMAIN duplicates : duplicates[k][1] # duplicates[k][2]
    /\ \A a, b \in DOMAIN records :
          a < b =>
             /\ Reports(b, a) = {}
             /\ Cardinality(Reports(a, b)) <= 1
             /\ (pc = "reported" /\ SameValues(a, b)) => Cardinality(Reports(a, b)) = 1

\* C16 witness: three records with the same values, three pairs reported.
C16_Witness ==
    /\ pc = "reported"
    /\ Len(records) = 3
    /\ Len(duplicates) = 3

-----------------------------------------------------------------------------
(* The weather batches: stats_grab.main (the odds of the games, then their   *)
(* weather, then the sheet) and the get_weather.py script                    *)

\* rows for which the aggregator has been called
WxCalled == {i \in DOMAIN wx : wx[i].kind # "none"}

\* round(x, ndigits) on a count of units: to the nearest multiple of step
RoundTo(x, step) == ((x + step \div 2) \div step) * step

\* m/s to mph: the factor 2.23694 of stats_grab, 3600.0 / 1609.344 of get_weather
MphOf(ms) == (ms * 223694) \div 100000

\* g.update({...}) in stats_grab.main, lines 249-254
GrabWeatherFields(w) ==
    [WindDirection |-> Val(w.average_wind_direction_degrees),
     WindSpeedMPH |-> MphOf(Val(w.average_wind_speed_m_s)),
     TempF |-> (Val(w.average_temperature_C) * 9) \div 5 + Hundredths(32),
     Humidity |-> Val(w.average_humidity_percent)]

\* the four columns of get_weather.py, lines 141-145
GwWeatherFields(w) ==
    [AverageTempF |-> RoundTo((Val(w.average_temperature_C) * 9) \div 5 + Hundredths(32), 10),
     AverageHumidity |-> RoundTo(Val(w.average_humidity_percent), 10),
     AverageWindSpeedMph |-> RoundTo(MphOf(Val(w.average_wind_speed_m_s)), 10),
     AverageWindDirection |-> RoundTo(Val(w.average_wind_direction_degrees), 1000)]

\* a row of input_with_odds.xlsx: OverUnderTotal is empty where the odds step
\* found nothing
GwRow(i, total) ==
    [GameID |-> i, GameDate |-> HISTORICAL_CUTOFF + i, OverUnderTotal |-> total]

GwTables ==
    UNION {[1..n -> {Some(17), NaN}] : n \in 0..MaxRows}

\* df = df[df["OverUnderTotal"].notna()]: the rows the script keeps
GwKept(row) == row.OverUnderTotal # NaN

GwNext(rws, from) ==
    LET S == {j \in from..Len(rws) : GwKept(rws[j])}
    IN  IF S = {} THEN Len(rws) + 1 ELSE FirstIndex(S)

WxStart ==
    /\ hourly = [i \in DOMAIN rows |-> <<>>]
    /\ wx = [i \in DOMAIN rows |-> NoCall]
    /\ wxOf = [i \in DOMAIN rows |-> None]
    /\ enriched = <<>>
    /\ written = None

InitGrabMain ==
    /\ script = "stats_grab"
    /\ \E n \in 0..MaxRows : rows = GamesOfLen(n)
    /\ idx = 1
    /\ pc = "loop"
    /\ cur = 0 /\ processed = 0 /\ attempt = 0
    /\ lastStatus = NoResponse /\ lastRet = "-" /\ lastCall = "-" /\ lastLog = {}
    /\ sent = {} /\ ts = None /\ noSnap = {} /\ oddsAsked = {}
    /\ GrabIdle
    /\ HarnessIdle
    /\ WxStart
    /\ MergeIdle
    /\ DupIdle

InitGetWeather ==
    /\ script = "get_weather"
    /\ \E f \in GwTables : rows = [i \in DOMAIN f |-> GwRow(i, f[i])]
    /\ idx = GwNext(rows, 1)
    /\ pc = "loop"
    /\ cur = 0 /\ processed = 0 /\ attempt = 0
    /\ lastStatus = NoResponse /\ lastRet = "-" /\ lastCall = "-" /\ lastLog = {}
    /\ sent = {} /\ ts = None /\ noSnap = {} /\ oddsAsked = {}
    /\ GrabIdle
    /\ HarnessIdle
    /\ WxStart
    /\ MergeIdle
    /\ DupIdle

\* one iteration of `for g in games` in stats_grab.main (lines 242-257); games
\* is the list fetch_odds_for_games returned
GrabWeather ==
    /\ script = "stats_grab"
    /\ pc = "done"
    /\ Cardinality(WxCalled) < Len(out)
    /\ \E r \in Responses, body \in WxBodies :
         LET g == out[Cardinality(WxCalled) + 1]
             ok200 == r.kind = "http" /\ r.status = 200
             w == weather_call("get_2hr_weather_avg", rows[g].GameDate, r, body)
         IN  /\ ~ok200 => body = NotJson
             /\ cur' = g
             /\ lastStatus' = r
             /\ lastCall' = "weather"
             /\ hourly' = [hourly EXCEPT ![g] = IF body.kind = "json" THEN body.hourly ELSE <<>>]
             /\ wx' = [wx EXCEPT ![g] = w]
             /\ IF w.kind = "ok"
                THEN /\ wxOf' = [wxOf EXCEPT ![g] = Some(GrabWeatherFields(w))]
                     /\ enriched' = Append(enriched, g)
                     /\ lastLog' = {}
                ELSE /\ lastLog' = {"skipping_weather"}
                     /\ UNCHANGED <<wxOf, enriched>>
    /\ UNCHANGED <<script, rows, idx, processed, pc, attempt, lastRet, sent, ts, noSnap,
                   oddsAsked, out, skipped, doc, quote, applied, written>>
    /\ UNCHANGED <<mergeVars, dupVars>>

\* stats_grab.main lines 259-275: the sheet is built from `enriched` and
\* written, unless the frame has no TotalRuns or no TotalRunLine column (it has
\* none when `enriched` is empty)
GrabSave ==
    /\ script = "stats_grab"
    /\ pc = "done"
    /\ Cardinality(WxCalled) = Len(out)
    /\ IF enriched = <<>>
       THEN /\ lastLog' = {"required_columns_missing"}
            /\ pc' = "exit"
            /\ UNCHANGED written
       ELSE /\ lastLog' = {"saved"}
            /\ written' = Some(enriched)
            /\ pc' = "saved"
    /\ UNCHANGED <<script, rows, idx, cur, processed, attempt, lastStatus, lastRet,
                   lastCall, sent, ts, noSnap, oddsAsked, out, skipped,
                   doc, quote, applied>>
    /\ UNCHANGED <<hourly, wx, wxOf, enriched, mergeVars, dupVars>>

\* one iteration of the loop of get_weather.py (lines 130-138): nothing
\* catches an exception of get_3hr_weather_avg
GwWeather ==
    /\ script = "get_weather"
    /\ pc = "loop"
    /\ idx <= Len(rows)
    /\ \E r \in Responses, body \in WxBodies :
         LET ok200 == r.kind = "http" /\ r.status = 200
             w == weather_call("get_3hr_weather_avg", rows[idx].GameDate, r, body)
         IN  /\ ~ok200 => body = NotJson
             /\ cur' = idx
             /\ lastStatus' = r
             /\ lastCall' = "weather"
             /\ hourly' = [hourly EXCEPT ![idx] = IF body.kind = "json" THEN body.hourly ELSE <<>>]
             /\ wx' = [wx EXCEPT ![idx] = w]
             /\ IF w.kind = "ok"
                THEN /\ enriched' = Append(enriched, idx)
                     /\ idx' = GwNext(rows, idx + 1)
                     /\ UNCHANGED pc
                ELSE /\ pc' = "crashed"
                     /\ UNCHANGED <<enriched, idx>>
    /\ UNCHANGED <<script, rows, processed, attempt, lastRet, lastLog, sent, ts, noSnap,
                   oddsAsked, out, skipped, doc, quote, applied, wxOf, written>>
    /\ UNCHANGED <<mergeVars, dupVars>>

\* get_weather.py lines 140-150: the columns are set and the sheet is written
GwSave ==
    /\ script = "get_weather"
    /\ pc = "loop"
    /\ idx > Len(rows)
    /\ wxOf' = [i \in DOMAIN rows |->
                  IF i \in Range(enriched) THEN Some(GwWeatherFields(wx[i])) ELSE None]
    /\ written' = Some(enriched)
    /\ lastLog' = {"done"}
    /\ pc' = "saved"
    /\ UNCHANGED <<script, rows, idx, cur, processed, attempt, lastStatus, lastRet,
                   lastCall, sent, ts, noSnap, oddsAsked, out, skipped,
                   doc, quote, applied>>
    /\ UNCHANGED <<hourly, wx, enriched, mergeVars, dupVars>>

NextWeatherBatch ==
    StartGame \/ GrabRequest \/ FinishGrab \/ GrabWeather \/ GrabSave
    \/ GwWeather \/ GwSave

SpecWeatherBatch == (InitGrabMain \/ InitGetWeather) /\ [][NextWeatherBatch]_vars

-----------------------------------------------------------------------------
(* Claims on the weather steps                                              *)

\* C12 (as claimed): an event whose odds step failed still has its weather
\* fetched and is still in the written sheet, with null odds fields and, when
\* the weather step succeeded, its weather fields set; in stats_grab.main and
\* in get_weather.py.
C12_OddsFailureKeepsEvent ==
    /\ (script = "stats_grab" /\ pc \in {"saved", "exit"}) =>
          \A i \in oddsAsked \ Range(out) :
              /\ wx[i].kind # "none"
              /\ wx[i].kind = "ok" =>
                    /\ written # None
                    /\ i \in Range(Val(written))
                    /\ rows[i].TotalRunLine = None
                    /\ wxOf[i] # None
    /\ (script = "get_weather" /\ pc = "saved") =>
          \A i \in DOMAIN rows :
              rows[i].OverUnderTotal = NaN =>
                  /\ wx[i].kind # "none"
                  /\ i \in Range(Val(written))

\* the in-window directions of row i, in the order of the answer
WindowDirs(i) ==
    LET Inside(s) == s \in {hourly[i][k] : k \in wx[i].used}
    IN  Column(SelectSeq(hourly[i], Inside), "wdir")

\* C17 (as claimed): the aggregated wind direction r satisfies 0 <= r < 360,
\* and for the two samples 350 and 10 it is 0.
C17_DirectionNormalized ==
    \A i \in DOMAIN wx :
        wx[i].kind = "ok" =>
            LET r == Val(wx[i].average_wind_direction_degrees)
            IN  /\ 0 <= r
                /\ r < 360000
                /\ WindowDirs(i) \in {<<350, 10>>, <<10, 350>>} => r = 0

\* the samples of the answer of row i whose time lies in the closed interval
\* of half-width hw around the start of the game
InClosedInterval(i, hw) ==
    {k \in DOMAIN hourly[i] :
        /\ rows[i].GameDate - hw <= hourly[i][k].time
        /\ hourly[i][k].time <= rows[i].GameDate + hw}

\* C18: the aggregators reduce exactly the samples whose time t satisfies
\* start - half_width <= t <= start + half_width (1.5 h for get_3hr_weather_avg,
\* 1 h for get_2hr_weather_avg); the means, the circular mean and the condition
\* are those of these samples alone.
C18_WindowIsClosedInterval ==
    \A i \in DOMAIN wx :
        wx[i].kind # "none" =>
            LET hw == IF applied = "get_3hr_weather_avg" THEN 3 ELSE 2
                win == InClosedInterval(i, hw)
                Inside(s) == \E k \in win : hourly[i][k] = s
                sel == SelectSeq(hourly[i], Inside)
            IN  /\ wx[i].used = win
                /\ wx[i].kind = "ok" =>
                      /\ wx[i].average_temperature_C = Some(MeanHundredths(Values(Column(sel, "temp"))))
                      /\ wx[i].average_humidity_percent = Some(MeanHundredths(Column(sel, "hum")))
                      /\ wx[i].average_wind_speed_m_s = Some(MeanHundredths(Column(sel, "wspd")))
                      /\ wx[i].average_wind_direction_degrees = Some(CircularMean(Column(sel, "wdir")))
                      /\ wx[i].most_common_condition
                            = Some(weather_map(most_common(Column(sel, "code"))))

\* C18 witness: a summary over a window with a sample on its boundary, another
\* sample of the answer being outside.
C18_Witness ==
    /\ script = "weather"
    /\ wx[1].kind = "ok"
    /\ \E k \in wx[1].used :
          \/ applied = "get_3hr_weather_avg" /\ hourly[1][k].time = rows[1].GameDate - 3
          \/ applied = "get_2hr_weather_avg" /\ hourly[1][k].time = rows[1].GameDate + 2
    /\ \E k \in DOMAIN hourly[1] : k \notin wx[1].used

\* the answer of row i was decoded, and none of its samples lies in the window
NoSampleInWindow(i) ==
    LET hw == IF script = "get_weather" THEN 3 ELSE 2
    IN  /\ wx[i].kind # "none"
        /\ wx[i].error \notin {"request_error", "http_error", "decode_error"}
        /\ \A k \in DOMAIN hourly[i] :
               \/ hourly[i][k].time < rows[i].GameDate - hw
               \/ hourly[i][k].time > rows[i].GameDate + hw

NoSummary(w) ==
    /\ w.average_temperature_C = None
    /\ w.average_humidity_percent = None
    /\ w.average_wind_speed_m_s = None
    /\ w.average_wind_direction_degrees = None
    /\ w.most_common_condition = None

\* C19: when no sample falls inside the window the aggregator fails with "No
\* weather data available" and returns no summary, and the weather fields of
\* the event are never set; a row has weather fields only from a summary.
C19_EmptyWindowIsFailure ==
    \A i \in DOMAIN wx :
        /\ NoSampleInWindow(i) =>
              /\ wx[i].kind = "raised"
              /\ wx[i].error = "no_weather_data"
              /\ NoSummary(wx[i])
              /\ wxOf[i] = None
        /\ wxOf[i] # None => wx[i].kind = "ok"

\* C19 witness: an answer with a sample, none of them in the window, and the
\* batch at its end.
C19_Witness ==
    /\ script = "stats_grab"
    /\ pc \in {"saved", "exit"}
    /\ \E i \in DOMAIN wx :
          /\ hourly[i] # <<>>
          /\ NoSampleInWindow(i)
          /\ wx[i].error = "no_weather_data"
          /\ wxOf[i] = None

\* C20 (as claimed): an empty window or a failed weather fetch of one event
\* never aborts the batch; the output is written and the row of the event is
\* in it, without weather fields.
C20_WeatherFailureKeepsBatch ==
    /\ script = "get_weather" => pc # "crashed"
    /\ (script \in {"stats_grab", "get_weather"} /\ pc \in {"saved", "exit"}) =>
          \A i \in DOMAIN wx :
              wx[i].kind = "raised" =>
                  /\ written # None
                  /\ i \in Range(Val(written))
                  /\ wxOf[i] = None

-----------------------------------------------------------------------------
(* Missing values of a channel                                              *)

\* the temperatures of the in-window samples of row i that are not null
PresentTemps(i) ==
    LET Inside(s) == s \in {hourly[i][k] : k \in wx[i].used} /\ s.temp # None
    IN  Values(Column(SelectSeq(hourly[i], Inside), "temp"))

\* C21 (as claimed): a null temperature on an in-window sample is left out of
\* the sum and of the count of the mean, and the aggregation does not fail
\* because of it: with a sample in the window a summary is returned, and its
\* temperature is the mean of the non-null temperatures (null when there is none).
C21_NullSampleSkipped ==
    \A i \in DOMAIN wx :
        (wx[i].kind # "none" /\ wx[i].used # {}) =>
            /\ wx[i].kind = "ok"
            /\ wx[i].average_temperature_C =
                  IF PresentTemps(i) = <<>> THEN None
                  ELSE Some(MeanHundredths(PresentTemps(i)))

-----------------------------------------------------------------------------
(* fetch_historical_odds.py: american_to_decimal, fetch_event_id,           *)
(* fetch_totals_for_event and main                                          *)
(*                                                                           *)
(* American prices are integers; the decimal price american_to_decimal       *)
(* returns is counted in hundredths, which is what round(x, 2) leaves.       *)

\* the prices of the Over outcome with oddsFormat=american
AmericanPrices == {150, 100, 110, -150, -110, -200, -160, -100, 0}

\* round(num / den, 2) counted in hundredths, num and den in the same unit and
\* num already multiplied by 100: to the nearest hundredth, a tie (the double
\* of a tie of this domain is exact) to the even one
RoundHalfEven(num, den) ==
    LET q == num \div den
        r == num % den
    IN  IF 2 * r < den THEN q
        ELSE IF 2 * r > den THEN q + 1
        ELSE IF q % 2 = 0 THEN q ELSE q + 1

\* american_to_decimal: raised is the ZeroDivisionError of 100.0 / abs(0)
american_to_decimal(american_odds) ==
    IF american_odds = None THEN [raised |-> FALSE, value |-> None]
    ELSE LET a == Val(american_odds)
         IN  IF a > 0
             THEN [raised |-> FALSE, value |-> Some(RoundHalfEven(100 * (a + 100), 100))]
             ELSE IF a = 0 THEN [raised |-> TRUE, value |-> None]
             ELSE [raised |-> FALSE, value |-> Some(RoundHalfEven(100 * (100 + Abs(a)), Abs(a)))]

\* the document d with every price it quotes replaced by the American price a
WithAmerican(d, a) ==
    [b \in DOMAIN d |->
        [key |-> d[b].key,
         markets |-> [m \in DOMAIN d[b].markets |->
                        [key |-> d[b].markets[m].key,
                         outcomes |-> [i \in DOMAIN d[b].markets[m].outcomes |->
                             LET oc == d[b].markets[m].outcomes[i]
                             IN  [name |-> oc.name, point |-> oc.point,
                                  price |-> IF oc.price = None THEN None ELSE Some(a)]]]]]]

HistDocs == {WithAmerican(d, a) : d \in SingleBookDocs, a \in AmericanPrices}

HistOddsBodies == {NotJson, JsonNull} \cup {[kind |-> "json", data |-> d] : d \in HistDocs}

\* the Over outcomes of the totals markets of d, as <<bookmaker, market, outcome>>
OverHits(d) ==
    {h \in (DOMAIN d) \X MarketIdx(d) \X (1..2) :
        /\ h[2] \in DOMAIN d[h[1]].markets
        /\ d[h[1]].markets[h[2]].key = "totals"
        /\ h[3] \in DOMAIN d[h[1]].markets[h[2]].outcomes
        /\ d[h[1]].markets[h[2]].outcomes[h[3]].name = "Over"}

\* fetch_totals_for_event from the decoded document on (lines 69-77): the
\* first Over outcome in document order
fetch_totals_for_event(d) ==
    LET hits == OverHits(d)
    IN  IF hits = {} THEN [raised |-> FALSE, point |-> None, odds |-> None]
        ELSE LET b == FirstIndex({h[1] : h \in hits})
                 m == FirstIndex({h[2] : h \in {x \in hits : x[1] = b}})
                 i == FirstIndex({h[3] : h \in {x \in hits : x[1] = b /\ x[2] = m}})
                 outcome == d[b].markets[m].outcomes[i]
                 dec == american_to_decimal(outcome.price)
             IN  [raised |-> dec.raised,
                  point |-> IF dec.raised THEN None ELSE outcome.point,
                  odds |-> dec.value]

\* fetch_totals_for_event with its request (lines 66-68)
totals_call(r, body) ==
    IF r.kind = "conn" \/ RaisesForStatus(r.status) \/ body.kind # "json"
    THEN [raised |-> TRUE, point |-> None, odds |-> None]
    ELSE fetch_totals_for_event(body.data)

\* the events list of the historical events endpoint for the instant t
EventLists(t) ==
    {<<>>, <<[id |-> 7, commence_time |-> t]>>, <<[id |-> 7, commence_time |-> t - 1]>>,
     <<[id |-> 7, commence_time |-> t - 1], [id |-> 8, commence_time |-> t]>>}

EventBodies(t) == {NotJson} \cup {[kind |-> "json", data |-> l] : l \in EventLists(t)}

\* fetch_event_id (lines 44-50): the id of the first event that starts at
\* game_date_iso, None when there is none
fetch_event_id(game_date_iso, r, body) ==
    IF r.kind = "conn" \/ RaisesForStatus(r.status) \/ body.kind # "json"
    THEN [raised |-> TRUE, id |-> None]
    ELSE LET S == {k \in DOMAIN body.data : body.data[k].commence_time = game_date_iso}
         IN  [raised |-> FALSE,
              id |-> IF S = {} THEN None ELSE Some(body.data[FirstIndex(S)].id)]

\* a row of input.xlsx after `df["OverUnderTotal"] = None; df["Odds"] = None`
HistRow(i, gd) == [GameID |-> i, GameDate |-> gd, OverUnderTotal |-> None, Odds |-> None]

HistTables ==
    UNION {[1..n -> {"dated", "undated"}] : n \in 0..MaxRows}

InitHistOdds ==
    /\ script = "fetch_historical_odds"
    /\ \E f \in HistTables :
          rows = [i \in DOMAIN f |->
                    HistRow(i, IF f[i] = "dated" THEN Some(HISTORICAL_CUTOFF + i) ELSE NaN)]
    /\ idx = 1
    /\ pc = "loop"
    /\ cur = 0 /\ processed = 0 /\ attempt = 0
    /\ lastStatus = NoResponse /\ lastRet = "-" /\ lastCall = "-" /\ lastLog = {}
    /\ sent = {} /\ ts = None /\ noSnap = {} /\ oddsAsked = {}
    /\ GrabIdle
    /\ HarnessIdle
    /\ WxIdle
    /\ MergeIdle
    /\ DupIdle

\* `for idx, row in df.iterrows()` and the validation of the row (lines 95-113)
HistStart ==
    /\ script = "fetch_historical_odds"
    /\ pc = "loop"
    /\ idx <= Len(rows)
    /\ cur' = idx
    /\ lastStatus' = NoResponse
    /\ lastCall' = "row"
    /\ sent' = {}
    /\ doc' = <<>>
    /\ IF rows[idx].GameDate = NaN
       THEN /\ lastLog' = {"missing_data_skipping"}
            /\ lastRet' = "skip"
            /\ idx' = idx + 1
            /\ UNCHANGED pc
       ELSE /\ lastLog' = {}
            /\ lastRet' = "-"
            /\ pc' = "event_id"
            /\ UNCHANGED idx
    /\ UNCHANGED <<script, rows, processed, attempt, ts, noSnap, oddsAsked, out, skipped,
                   quote, applied>>
    /\ UNCHANGED <<wxVars, mergeVars, dupVars>>

\* lines 115-124: fetch_event_id inside try, and `if not event_id`
HistEventId ==
    /\ script = "fetch_historical_odds"
    /\ pc = "event_id"
    /\ \E r \in Responses, body \in EventBodies(Val(rows[cur].GameDate)) :
         LET ok200 == r.kind = "http" /\ r.status = 200
             ev == fetch_event_id(Val(rows[cur].GameDate), r, body)
         IN  /\ ~ok200 => body = NotJson
             /\ lastStatus' = r
             /\ lastCall' = "event_id"
             /\ sent' = sent \cup {[endpoint |-> "events", date |-> Val(rows[cur].GameDate)]}
             /\ IF ev.raised
                THEN /\ lastLog' = {"error_fetching_event_list"}
                     /\ lastRet' = "skip"
                     /\ idx' = cur + 1
                     /\ pc' = "loop"
                ELSE IF ev.id = None
                THEN /\ lastLog' = {"no_event_id_skipping"}
                     /\ lastRet' = "skip"
                     /\ idx' = cur + 1
                     /\ pc' = "loop"
                ELSE /\ lastLog' = {}
                     /\ lastRet' = "ok"
                     /\ pc' = "totals"
                     /\ UNCHANGED idx
    /\ UNCHANGED <<script, rows, cur, processed, attempt, ts, noSnap, oddsAsked, out, skipped,
                   doc, quote, applied>>
    /\ UNCHANGED <<wxVars, mergeVars, dupVars>>

\* lines 126-142: fetch_totals_for_event inside try, `if point is None`, and
\* the assignment of the two cells
HistTotals ==
    /\ script = "fetch_historical_odds"
    /\ pc = "totals"
    /\ \E r \in Responses, body \in HistOddsBodies :
         LET ok200 == r.kind = "http" /\ r.status = 200
             res == totals_call(r, body)
         IN  /\ ~ok200 => body = NotJson
             /\ lastStatus' = r
             /\ lastCall' = "totals"
             /\ sent' = sent \cup {[endpoint |-> "odds", date |-> Val(rows[cur].GameDate)]}
             /\ oddsAsked' = oddsAsked \cup {cur}
             /\ doc' = IF body.kind = "json" THEN body.data ELSE <<>>
             /\ IF res.raised
                THEN /\ lastLog' = {"error_fetching_odds"}
                     /\ lastRet' = "skip"
                     /\ UNCHANGED rows
                ELSE IF res.point = None
                THEN /\ lastLog' = {"no_totals_market_skipping"}
                     /\ lastRet' = "skip"
                     /\ UNCHANGED rows
                ELSE /\ lastLog' = {}
                     /\ lastRet' = "ok"
                     /\ rows' = [rows EXCEPT ![cur].OverUnderTotal = res.point,
                                             ![cur].Odds = res.odds]
    /\ idx' = cur + 1
    /\ pc' = "loop"
    /\ UNCHANGED <<script, cur, processed, attempt, ts, noSnap, out, skipped, quote, applied>>
    /\ UNCHANGED <<wxVars, mergeVars, dupVars>>

\* lines 144-146: df.to_excel(OUTPUT_FILE)
HistSave ==
    /\ script = "fetch_historical_odds"
    /\ pc = "loop"
    /\ idx > Len(rows)
    /\ written' = Some([i \in DOMAIN rows |-> i])
    /\ lastLog' = {"finished"}
    /\ pc' = "saved"
    /\ UNCHANGED <<script, rows, idx, cur, processed, attempt, lastStatus, lastRet,
                   lastCall, sent, ts, noSnap, oddsAsked, out, skipped,
                   doc, quote, applied>>
    /\ UNCHANGED <<hourly, wx, wxOf, enriched, mergeVars, dupVars>>

NextHistOdds == HistStart \/ HistEventId \/ HistTotals \/ HistSave

SpecHistOdds == InitHistOdds /\ [][NextHistOdds]_vars

\* the American price of the Over outcome that the latest totals fetch used
OverAmerican ==
    LET h == CHOOSE x \in OverHits(doc) :
                 \A y \in OverHits(doc) :
                     x[1] < y[1] \/ (x[1] = y[1] /\ x[2] < y[2])
                     \/ (x[1] = y[1] /\ x[2] = y[2] /\ x[3] <= y[3])
    IN  doc[h[1]].markets[h[2]].outcomes[h[3]].price

\* C22 (as claimed): the decimal price stored on the row is exactly
\* a/100 + 1 for an American price a > 0 and exactly 100/|a| + 1 for a < 0;
\* in hundredths, Odds = a + 100 and Odds * |a| = 100 * (100 + |a|).
C22_AmericanToDecimalExact ==
    ( /\ script = "fetch_historical_odds"
      /\ lastCall = "totals" /\ lastRet = "ok"
      /\ rows[cur].Odds # None )
    => LET a == Val(OverAmerican)
           odds == Val(rows[cur].Odds)
       IN  /\ a > 0 => odds = a + 100
           /\ a < 0 => odds * Abs(a) = 100 * (100 + Abs(a))

-----------------------------------------------------------------------------
(* The wind relative to the field: the 'Into?' column of stats_grab.main     *)
(* and rel_deg of machine_learning.load_and_preprocess                       *)
(*                                                                           *)
(* A double that lies next to a whole number of degrees is a record [D, e]:  *)
(* its value is D + e * 2^-47 degrees, e small.  The doubles of magnitude    *)
(* 32 .. 64 are 2^-47 apart, those of 64 .. 128 are 2^-46 apart, and so on.  *)

\* the spacing of the doubles around x, in units of 2^-47
UlpUnits(x) ==
    LET a == Abs(x.D) - (IF (x.D > 0 /\ x.e < 0) \/ (x.D < 0 /\ x.e > 0) THEN 1 ELSE 0)
    IN  IF a >= 512 THEN 16
        ELSE IF a >= 256 THEN 8
        ELSE IF a >= 128 THEN 4
        ELSE IF a >= 64 THEN 2
        ELSE 1

\* the double nearest to x, a tie to the even one
RoundToUlp(x) ==
    [D |-> x.D, e |-> UlpUnits(x) * RoundHalfEven(x.e, UlpUnits(x))]

\* x + n for a whole n, in doubles
FloatAdd(x, n) == RoundToUlp([D |-> x.D + n, e |-> x.e])

\* x <= n and x >= n for a whole n
FloatLE(x, n) == x.D < n \/ (x.D = n /\ x.e <= 0)
FloatGE(x, n) == x.D > n \/ (x.D = n /\ x.e >= 0)

\* x % 360 of Python and numpy for -360 < x < 1080: fmod, and 360 added to a
\* negative remainder
FloatMod360(x) ==
    IF FloatGE(x, 720) THEN [D |-> x.D - 720, e |-> x.e]
    ELSE IF FloatGE(x, 360) THEN [D |-> x.D - 360, e |-> x.e]
    ELSE IF FloatGE(x, 0) THEN x
    ELSE FloatAdd(x, 360)

\* average_wind_direction_degrees as get_2hr_weather_avg returns it for a
\* window with the single sample d, and for the two samples 350 and 10 (d = 360)
DirectionOf(d) ==
    CASE d = 60 -> [D |-> 60, e |-> -1]
      [] d = 105 -> [D |-> 105, e |-> 2]
      [] d = 120 -> [D |-> 120, e |-> -2]
      [] d = 225 -> [D |-> 225, e |-> -4]
      [] d = 240 -> [D |-> 240, e |-> -8]
      [] OTHER -> [D |-> d, e |-> 0]

WindSamples == {0, 45, 60, 105, 120, 180, 225, 240, 315, 360}

\* CompassBearing of the stadium records
Bearings == {0, 15, 60, 75, 105, 285, 330}

\* stats_grab.main line 270: "Yes" if ((WindDirection - CompassBearing + 360) % 360)
\* <= 45 or the same >= 315, else "No"
Into(wd, cb) ==
    LET diff == FloatMod360(FloatAdd(FloatAdd(wd, -cb), 360))
    IN  IF FloatLE(diff, 45) \/ FloatGE(diff, 315) THEN "Yes" ELSE "No"

\* machine_learning.load_and_preprocess line 54: (WindDir - CompassBearing) % 360
rel_deg(wd, cb) == FloatMod360(FloatAdd(wd, -cb))

InitWind ==
    /\ script = "wind"
    /\ pc = "input"
    /\ \E d \in WindSamples, cb \in Bearings :
          rows = <<[WindDirection |-> DirectionOf(d), CompassBearing |-> cb,
                    Into |-> None, rel_deg |-> None]>>
    /\ idx = 1 /\ cur = 0 /\ processed = 0 /\ attempt = 0
    /\ lastStatus = NoResponse /\ lastRet = "-" /\ lastCall = "-" /\ lastLog = {}
    /\ sent = {} /\ ts = None /\ noSnap = {} /\ oddsAsked = {}
    /\ GrabIdle
    /\ HarnessIdle
    /\ WxIdle
    /\ MergeIdle
    /\ DupIdle

\* df["Into?"] = df.apply(lambda r: ..., axis=1) on one row
ApplyInto ==
    /\ script = "wind"
    /\ pc \in {"input", "rel_deg"}
    /\ rows' = [rows EXCEPT ![1].Into =
                   Some(Into(rows[1].WindDirection, rows[1].CompassBearing))]
    /\ applied' = "Into"
    /\ pc' = IF pc = "input" THEN "into" ELSE "output"
    /\ UNCHANGED <<script, idx, processed, attempt, lastStatus, lastRet, lastCall,
                   lastLog, cur, sent, ts, noSnap, oddsAsked, out, skipped, doc, quote>>
    /\ UNCHANGED <<wxVars, mergeVars, dupVars>>

\* rel_deg = (df["WindDir"] - df["CompassBearing"]) % 360 on one row
ApplyRelDeg ==
    /\ script = "wind"
    /\ pc \in {"input", "into"}
    /\ rows' = [rows EXCEPT ![1].rel_deg =
                   Some(rel_deg(rows[1].WindDirection, rows[1].CompassBearing))]
    /\ applied' = "rel_deg"
    /\ pc' = IF pc = "input" THEN "rel_deg" ELSE "output"
    /\ UNCHANGED <<script, idx, processed, attempt, lastStatus, lastRet, lastCall,
                   lastLog, cur, sent, ts, noSnap, oddsAsked, out, skipped, doc, quote>>
    /\ UNCHANGED <<wxVars, mergeVars, dupVars>>

NextWind == ApplyInto \/ ApplyRelDeg

SpecWind == InitWind /\ [][NextWind]_vars

\* (wind_dir - bearing) mod 360 as a real number, next to a whole number of degrees
ExactDiff(row) ==
    LET D == (row.WindDirection.D - row.CompassBearing) % 360
        e == row.WindDirection.e
    IN  IF D = 0 /\ e < 0 THEN [D |-> 360, e |-> e] ELSE [D |-> D, e |-> e]

IsHeadwind(diff) == FloatLE(diff, 45) \/ FloatGE(diff, 315)
IsTailwind(diff) == FloatGE(diff, 135) /\ FloatLE(diff, 225)
IsCrosswind(diff) == ~IsHeadwind(diff) /\ ~IsTailwind(diff)

\* C23 (as claimed): with diff = (wind_dir - bearing) mod 360 the event is in
\* exactly one of the classes Headwind (diff <= 45 or diff >= 315), Tailwind
\* (135 <= diff <= 225) and Crosswind (otherwise), and 'Into?' is "Yes" exactly
\* when the class is Headwind.
C23_IntoIffHeadwind ==
    (script = "wind" /\ rows[1].Into # None) =>
        LET diff == ExactDiff(rows[1])
        IN  /\ ~(IsHeadwind(diff) /\ IsTailwind(diff))
            /\ rows[1].Into = Some("Yes") <=> IsHeadwind(diff)

-----------------------------------------------------------------------------
(* An interrupt (SIGINT) during the loops                                    *)
(*                                                                           *)
(* Python raises KeyboardInterrupt in the main thread at the point the       *)
(* program has reached, inside requests.get and time.sleep as well.  It is   *)
(* not a RequestException and not an Exception, so no handler of get_odds,   *)
(* get_odds_v2 or eventids catches it: main ends there.                      *)

\* an interrupt while get_odds.main or get_odds_v2.main is in its event loop:
\* between two events, or inside the snapshot lookup or the odds fetch of one
InterruptOdds ==
    /\ script \in OddsScripts
    /\ pc \in {"loop", "snap", "odds"}
    /\ pc' = "interrupted"
    /\ lastLog' = {"KeyboardInterrupt"}
    /\ UNCHANGED <<script, rows, idx, cur, processed, attempt, lastStatus, lastRet,
                   lastCall, sent, ts, noSnap, oddsAsked, out, skipped,
                   doc, quote, applied>>
    /\ UNCHANGED <<wxVars, mergeVars, dupVars>>

\* an interrupt while eventids.main is in its day loop (lines 77-97)
InterruptDays ==
    /\ script = "eventids"
    /\ pc = "days"
    /\ day <= MaxDays
    /\ pc' = "interrupted"
    /\ lastLog' = {"KeyboardInterrupt"}
    /\ UNCHANGED <<script, rows, idx, processed, attempt, lastStatus, lastRet, lastCall,
                   cur, sent, ts, noSnap, oddsAsked, out, skipped, doc, quote, applied>>
    /\ UNCHANGED <<mergeVars, wxVars, dupVars>>

NextInterruptible ==
    StartEvent \/ SnapshotRequest \/ OddsRequest \/ Finish \/ InterruptOdds
    \/ FetchDay \/ MergeAndSave \/ InterruptDays

SpecInterruptible == (InitOdds \/ InitEventIds) /\ [][NextInterruptible]_vars

\* the output file of the running script as it is on disk: the sheets of
\* get_odds are written after the loop, input.xlsx by the merge
OutputOnDisk ==
    IF script \in OddsScripts THEN (IF pc = "done" THEN Some(rows) ELSE None)
    ELSE Some(table)

\* the rows the event loop has enriched so far
EnrichedSoFar == {i \in DOMAIN rows : i \in oddsAsked /\ rows[i].TotalRunsLine # None}

\* C24 (as claimed): an interrupt during the event loop takes effect only once
\* the current event is complete, and what was enriched before it is in the
\* output table: the enriched rows of get_odds.main, the fetched events of the
\* day loop of eventids.main.
C24_InterruptKeepsProgress ==
    pc = "interrupted" =>
        /\ script \in OddsScripts =>
              /\ idx > cur
              /\ \A i \in EnrichedSoFar :
                     OutputOnDisk # None /\ Val(OutputOnDisk)[i] = rows[i]
        /\ script = "eventids" =>
              \A k \in DOMAIN all_events :
                  \E j \in DOMAIN Val(OutputOnDisk) :
                      Val(OutputOnDisk)[j].id = all_events[k].id

-----------------------------------------------------------------------------
(* The day loop of eventids.main                                            *)

\* the scheduling of a sequential program: the step that is enabled is taken
\* the day loop does not read input.xlsx; the fair runs start from the
\* previous tables of at most one row
InitEventIdsShort == InitEventIds /\ Len(table) <= 1

SpecEventIdsFair ==
    /\ InitEventIdsShort
    /\ [][NextEventIds]_vars
    /\ WF_vars(FetchDay)
    /\ WF_vars(MergeAndSave)

\* every day before the cursor has been asked for, once
DaysAskedOnce ==
    /\ day <= MaxDays + 1
    /\ attempt = day - 1
    /\ sent = {[endpoint |-> "events", date |-> d] : d \in 1..(day - 1)}
    /\ pc = "saved" =>
          /\ day = MaxDays + 1
          /\ \A k \in DOMAIN all_events : RowsOf(table, all_events[k].id) # {}

\* an iteration moves the cursor on by one day, keeps the events fetched so
\* far and appends those of a day that succeeded
OneDayPerIteration ==
    day' # day =>
        /\ day' = day + 1
        /\ lastRet' = "raise" => all_events' = all_events
        /\ lastRet' = "resp" => all_events' = all_events \o doc'

\* C25: in the day loop a fetch error skips only that day: every iteration,
\* failed or not, moves the cursor on by exactly one day, each day up to the
\* end date is asked for exactly once, the events of the days that succeeded
\* are all kept, and the loop ends (the table is saved).
C25_ErrorSkipsOnlyThatDay ==
    /\ []DaysAskedOnce
    /\ [][OneDayPerIteration]_vars
    /\ <>(pc = "saved")

\* C25 witness: the fetch of the last day failed, the events of an earlier day
\* are kept, and the table has been saved.
C25_Witness ==
    /\ pc = "saved"
    /\ lastRet = "raise"
    /\ all_events # <<>>
    /\ attempt = MaxDays

-----------------------------------------------------------------------------
(* The counters of stats_grab.fetch_odds_for_games                          *)

\* C26 (as claimed): whatever the statuses, exceptions and payloads, every
\* game is either appended to out with its line and both prices set or counted
\* once as skipped, so that len(out) + skipped is the number of the games the
\* loop has left behind and, after the loop, of all the games; a game is
\* requested at most twice.
C26_AppendedOrSkipped ==
    script = "stats_grab" =>
        /\ attempt <= 2
        /\ pc # "crashed"
        /\ pc \in {"loop", "done"} => Len(out) + skipped = idx - 1
        /\ pc = "done" => Len(out) + skipped = Len(rows)
        /\ \A k \in DOMAIN out :
              /\ rows[out[k]].TotalRunLine # None
              /\ rows[out[k]].OddsOver # None
              /\ rows[out[k]].OddsUnder # None

-----------------------------------------------------------------------------
(* The label of an event without a realized total                           *)

\* C27 (as claimed): Outcome and the payouts are written for an event only
\* when its realized total TotalRuns is present; an event with a line and a
\* missing total gets no label and no payouts.
C27_NoLabelWithoutTotal ==
    \A i \in DOMAIN rows :
        (script \in OddsScripts \cup {"extract"} /\ rows[i].TotalRuns = NaN) =>
            /\ rows[i].Outcome = None
            /\ rows[i].OverPayout = None
            /\ rows[i].UnderPayout = None

-----------------------------------------------------------------------------
(* The rows get_odds_v2.main leaves alone                                   *)

\* at least one of the seven odds and outcome columns of the row is set
SomeOddsColumnSet(row) == \E c \in OddsCols : row[c] # None

\* C28: in get_odds_v2.main a row with at least one of the seven columns set
\* is never the row of a request and no step changes any of its fields; only
\* rows whose seven columns are all null are requested and updated.
C28_OnlyBlankRowsUpdated ==
    [][script = "get_odds_v2" =>
          /\ \A i \in DOMAIN rows :
                SomeOddsColumnSet(rows[i]) => rows'[i] = rows[i]
          /\ pc' \in {"snap", "odds"} =>
                /\ cur' \in DOMAIN rows
                /\ ~SomeOddsColumnSet(rows[cur'])]_vars

\* the sheet is written with a row left by an earlier run skipped and another
\* row enriched in this run
C28_Witness ==
    /\ script = "get_odds_v2"
    /\ pc = "done"
    /\ \E i, j \in DOMAIN rows :
          /\ rows[i] = PartialRow(i, HISTORICAL_CUTOFF + i)
          /\ i \notin oddsAsked \cup noSnap
          /\ j \in oddsAsked
          /\ rows[j].TotalRunsLine # None

-----------------------------------------------------------------------------
(* get_odds.main and get_odds_v2.main side by side                          *)
(*                                                                          *)
(* One iteration of the two event loops on the same row and the same        *)
(* responses: rows[1] is the row of get_odds, rows[2] the row of            *)
(* get_odds_v2.  Both safe_get are the same code, so the two loops issue    *)
(* their requests in step until one of them raises.  pc is "crashed" when   *)
(* both raised and "diverged" when only one of them did.                    *)

PairRows == {BlankRow(1, HISTORICAL_CUTOFF + 1, r) : r \in RunTotals}

InitPair ==
    /\ script = "pair"
    /\ \E row \in PairRows : rows = <<row, row>>
    /\ pc = "snap"
    /\ idx = 1 /\ cur = 1 /\ processed = 0 /\ attempt = 0
    /\ lastStatus = NoResponse /\ lastRet = "-" /\ lastCall = "snap" /\ lastLog = {}
    /\ sent = {} /\ ts = None /\ noSnap = {} /\ oddsAsked = {}
    /\ GrabIdle
    /\ HarnessIdle
    /\ WxIdle
    /\ MergeIdle
    /\ DupIdle

\* what an iteration does once get_snapshot_ts is over (lines 135-137;
\* get_odds_v2 lines 134-137)
AfterSnapshot(snap) ==
    IF snap.raised THEN "crashed"
    ELSE IF LookupFailed(snap.ts) THEN "done"
    ELSE "odds"

\* one request of the two snapshot lookups
PairSnapshot ==
    /\ script = "pair"
    /\ pc = "snap"
    /\ \E r \in Responses, body \in SnapBodies(rows[1]) :
         LET n == attempt + 1
             sg == safe_get(r, n)
             resp == IF sg.ret = "resp" THEN Some(body) ELSE None
             snap1 == get_snapshot_ts("get_odds", resp)
             snap2 == get_snapshot_ts("get_odds_v2", resp)
         IN  /\ sg.ret # "resp" => body = NotJson
             /\ attempt' = n
             /\ lastStatus' = r
             /\ lastLog' = sg.log
             /\ IF sg.ret = "retry"
                THEN /\ lastRet' = "retry"
                     /\ UNCHANGED <<pc, ts, noSnap>>
                ELSE /\ lastRet' = IF snap1.raised \/ snap2.raised THEN "raise" ELSE sg.ret
                     /\ pc' = IF AfterSnapshot(snap1) = AfterSnapshot(snap2)
                                 /\ snap1.ts = snap2.ts
                              THEN AfterSnapshot(snap1) ELSE "diverged"
                     /\ ts' = snap2.ts
                     /\ noSnap' = {v \in 1..2 :
                                     LET snap == IF v = 1 THEN snap1 ELSE snap2
                                     IN  AfterSnapshot(snap) = "done"}
    /\ UNCHANGED <<script, rows, idx, cur, processed, lastCall, sent, oddsAsked,
                   out, skipped, doc, quote, applied>>
    /\ UNCHANGED <<wxVars, mergeVars, dupVars>>

\* one request of the two fetch_historical_totals, and the writes of the two
\* loop bodies (lines 139-161; get_odds_v2 lines 140-164)
PairOdds ==
    /\ script = "pair"
    /\ pc = "odds"
    /\ \E r \in Responses, body \in OddsBodies :
         LET n == IF lastCall = "snap" THEN 1 ELSE attempt + 1
             sg == safe_get(r, n)
             resp == IF sg.ret = "resp" THEN Some(body) ELSE None
             ft1 == FetchTotals("get_odds", resp)
             ft2 == FetchTotals("get_odds_v2", resp)
             row1 == IF ft1.raised THEN rows[1] ELSE EnrichV1(rows[1], ft1.odds)
             row2 == IF ft2.raised THEN rows[2] ELSE EnrichV2(rows[2], ft2.odds)
         IN  /\ sg.ret # "resp" => body = NotJson
             /\ attempt' = n
             /\ lastStatus' = r
             /\ lastCall' = "odds"
             /\ lastLog' = sg.log
             /\ oddsAsked' = {1, 2}
             /\ IF sg.ret = "retry"
                THEN /\ lastRet' = "retry"
                     /\ UNCHANGED <<pc, rows>>
                ELSE /\ lastRet' = IF ft1.raised \/ ft2.raised THEN "raise" ELSE sg.ret
                     /\ rows' = <<row1, row2>>
                     /\ pc' = IF ft1.raised /\ ft2.raised THEN "crashed"
                              ELSE IF ft1.raised \/ ft2.raised THEN "diverged"
                              ELSE "done"
    /\ UNCHANGED <<script, idx, cur, processed, sent, ts, noSnap, out, skipped,
                   doc, quote, applied>>
    /\ UNCHANGED <<wxVars, mergeVars, dupVars>>

NextPair == PairSnapshot \/ PairOdds

SpecPair == InitPair /\ [][NextPair]_vars

\* C29 (as claimed): on the same row without odds and the same responses,
\* get_odds.main and get_odds_v2.main end the iteration the same way and leave
\* the same values in the seven odds and outcome columns.
C29_SameValuesWritten ==
    script = "pair" =>
        /\ pc # "diverged"
        /\ \A c \in OddsCols : rows[1][c] = rows[2][c]

-----------------------------------------------------------------------------
(* The clocks of the weather window                                         *)
(*                                                                          *)
(* GameDate is a UTC time ("%Y-%m-%dT%H:%M:%SZ"), parsed into a datetime    *)
(* without a zone.  The archive is asked with timezone "auto": it answers   *)
(* the hours of the venue's local day and labels each with its local time,  *)
(* which datetime.fromisoformat reads into a datetime without a zone too.   *)
(* A sample carries its label (time) and, for the comparison with the       *)
(* claim, its UTC instant (utc).  Times are counted in half-hours.          *)

HoursOfDay == 24

\* UTC offsets of the venues: UTC-8 ... UTC-4, UTC and UTC+9
UtcOffsets == {-16, -14, -12, -10, -8, 0, 18}

\* the label of an instant under timezone "auto"
LocalLabel(instant, offset) == instant + offset

\* the hours of the venue's local day that holds the window: the k-th hour
\* starts at local midnight plus k - 1 hours
ClockHourly(offset) ==
    [k \in 1..HoursOfDay |->
        LET instant == 2 * (k - 1) - offset
        IN  [time |-> LocalLabel(instant, offset), utc |-> instant,
             temp |-> Some(10), hum |-> 40, wspd |-> 2, wdir |-> 10, code |-> 0]]

\* starts of the game on the UTC clock: 07:00, 07:30, ..., 20:00
ClockGameTimes == 14..40

InitClock ==
    /\ script = "clock"
    /\ pc = "input"
    /\ \E t \in ClockGameTimes : rows = <<WxGame(t)>>
    /\ \E offset \in UtcOffsets : hourly = <<ClockHourly(offset)>>
    /\ wx = <<NoCall>>
    /\ wxOf = <<None>>
    /\ enriched = <<>>
    /\ written = None
    /\ LoopIdle
    /\ GrabIdle
    /\ HarnessIdle
    /\ MergeIdle
    /\ DupIdle

\* get_2hr_weather_avg on the answer of the archive
ClockApply2hr ==
    /\ script = "clock"
    /\ pc = "input"
    /\ wx' = <<get_2hr_weather_avg(rows[1].GameDate, hourly[1])>>
    /\ applied' = "get_2hr_weather_avg"
    /\ pc' = "output"
    /\ UNCHANGED <<script, rows, idx, processed, attempt, lastStatus, lastRet, lastCall,
                   lastLog, cur, sent, ts, noSnap, oddsAsked, out, skipped, doc, quote>>
    /\ UNCHANGED <<hourly, wxOf, enriched, written, mergeVars, dupVars>>

NextClock == ClockApply2hr

SpecClock == InitClock /\ [][NextClock]_vars

\* the samples whose UTC instant lies within one hour of the UTC start
WithinOneHourUtc(i) ==
    {k \in DOMAIN hourly[i] :
        /\ rows[i].GameDate - 2 <= hourly[i][k].utc
        /\ hourly[i][k].utc <= rows[i].GameDate + 2}

\* C30 (as claimed): the samples get_2hr_weather_avg aggregates are those
\* whose UTC instant lies within one hour of the event's UTC start time,
\* whatever the UTC offset of the venue.
C30_WindowOnUtcInstants ==
    \A i \in DOMAIN wx :
        (script = "clock" /\ wx[i].kind # "none") => wx[i].used = WithinOneHourUtc(i)

=============================================================================
